---- MODULE Spec2Model ----
(***************************************************************************)
(* A model of go-icedrive's authenticated session: the HTTP sender with    *)
(* its auth-retry wrapper (api/http.go), the sender pool                   *)
(* (api.HTTPClientPool), the login flow (api/login.go, api/user-data.go)   *)
(* and the facade (client.Client) with its streaming wrappers.             *)
(*                                                                         *)
(* A bearer token is modelled as a sequence: "" is <<>> and the i-th token *)
(* the Service hands out is <<i>>.  A thread's calls nest at most two      *)
(* deep: level 1 is a call on the sender the thread holds, level 2 a call  *)
(* on the standalone sender that Client.relogin creates.                   *)
(***************************************************************************)
EXTENDS Integers, Sequences, FiniteSets, TLC

\* ---------------------------------------------------------------- bounds
MaxPool == 2          \* largest pool size NewClientWithPoolSize is called with
NCallers == 2         \* concurrent callers of the facade
MaxTok == 2           \* distinct bearer tokens the Service hands out
MaxCloses == 2        \* how often a caller calls Close on one stream
MaxCalls == 4         \* facade calls made in one run
MaxCipher == 66       \* longest ciphertext (header and body), in bytes
MaxPad == 16          \* largest numPadding byte of a header
MaxRun == 17          \* longest run of 'a' a filename starts with
MaxTail == 2          \* bytes of a filename after the run
CounterBits == 2      \* width of the proof-of-work counter, in bits
DigestBytes == 2      \* length of a digest, in bytes
MaxNonce == 3         \* largest nonce the legacy proof of work looks at
MaxHeaders == 3       \* items of a headers string
MaxBytes == 3         \* bytes countLeadingZeroBits is given
MaxSets == 3          \* SetCryptoPassword calls on one client
ChunkBlocks == 4      \* blocks of a CBC chunk
MaxReads == 3         \* reads of a body whose sizes are chosen
MaxWrites == 24       \* Writes on one upload writer

\* ---------------------------------------------------------------- values
Tok(i) == <<i>>
NoToken == <<>>
Tokens == {Tok(i) : i \in 1..MaxTok}
StaleToken == Tok(0)                  \* a token the Service no longer accepts
Bearers == Tokens \cup {NoToken}

Callers == 1..NCallers
Bg(c) == NCallers + c                 \* the goroutine running a stream's POST
Threads == 1..(2 * NCallers)
Levels == {1, 2}

Standalone(t) == MaxPool + t          \* the sender Client.relogin creates
AllSenders == 1..(MaxPool + 2 * NCallers)

\* The (status, headers, body, err) an operation returns.  The headers are
\* not looked at by the code modelled here; tok is the token field of a
\* login response body.
NoResp == [err |-> FALSE, status |-> 0, body |-> "nil", tok |-> NoToken]
TransportError == [err |-> TRUE, status |-> 0, body |-> "nil", tok |-> NoToken]
DecodeError == [err |-> TRUE, status |-> 401, body |-> "nil", tok |-> NoToken]
Bodies == {"ok", "e1001", "eother", "nonjson"}
Responses ==
    {TransportError, DecodeError}
        \cup [err : {FALSE}, status : {200, 401, 403, 500}, body : Bodies,
              tok : {NoToken}]

RespOK == [err |-> FALSE, status |-> 200, body |-> "ok", tok |-> NoToken]
Resp401 == [err |-> FALSE, status |-> 401, body |-> "nonjson", tok |-> NoToken]
Resp1001 == [err |-> FALSE, status |-> 200, body |-> "e1001", tok |-> NoToken]
RespRefused == [err |-> FALSE, status |-> 200, body |-> "eother", tok |-> NoToken]

\* tryParseAPIError followed by IsAuthError: the body parses as JSON with
\* error = true and code = 1001.
IsAuthError(body) == body = "e1001"

\* The status test of withRetryOnAuthError's first block.
IsAuthStatus(status) == status = 401 \/ status = 403

\* addHeaders: the Authorization header carries the sender's bearer when it is
\* not empty (the facade's headers string holds no Authorization).
AuthHeader(b) == b

\* withRetryOnAuthError retries exactly when reloginFunc returned nil.
RetryEvenOnFailure(ok) == TRUE
RetryAfterRelogin(ok) == ok

\* UserData refuses to send anything for a sender without bearer.
UserDataHasBearer(b) == b # NoToken

\* json.Unmarshal of a response body succeeds.
ParsesAsJSON(body) == body \in {"ok", "e1001", "eother"}

\* The status test of the login flow and of the endpoint wrappers.
StatusOK(status) == status >= 200 /\ status < 400

VARIABLES
    poolSize,      \* HTTPClientPool.size
    pool,          \* HTTPClientPool.pool: the channel's content, oldest first
    poolBearer,    \* HTTPClientPool.bearer
    poolRelogin,   \* HTTPClientPool.reloginFunc: "nil" or "relogin"
    bearer,        \* HTTPClient.bearer of each sender
    reloginFn,     \* HTTPClient.reloginFunc of each sender
    user,          \* Client.user: "nil" or "user"
    email,         \* Client.email
    password,      \* Client.password
    valid,         \* the tokens the Service accepts
    issued,        \* how many tokens the Service has handed out
    pc,            \* each thread's position in its facade operation
    fr,            \* each thread's facade operation: name, arguments, result
    held,          \* the sender each thread works with (0: none)
    rq,            \* each thread's calls of httpGET / httpPOST / httpPOSTReader
    lg,            \* each thread's calls of api.LoginWithUsernameAndPassword
    rl,            \* each thread's call of reloginFunc
    stream,        \* each caller's streaming writer or reader; for an
                   \* encrypted download, the decrypt task's state too
    lastSet,       \* the token of the last completed pool SetBearerToken
    calls          \* how many facade calls have been made

vars == <<poolSize, pool, poolBearer, poolRelogin, bearer, reloginFn, user,
          email, password, valid, issued, pc, fr, held, rq, lg, rl, stream,
          lastSet, calls>>

poolVars == <<poolSize, pool, poolBearer, poolRelogin>>
clientVars == <<user, email, password>>
serverVars == <<valid, issued>>
facadeVars == <<pc, fr, held, stream, lastSet>>

NoReq ==
    [ph |-> "none", kind |-> "GET", ep |-> "-", s |-> 0, n |-> 0,
     hdr |-> NoToken, r1 |-> NoResp, res |-> NoResp, old |-> NoToken,
     rls |-> <<>>, eaten |-> FALSE, resent |-> FALSE]

NoLogin ==
    [ph |-> "none", s |-> 0, e |-> "", p |-> "", tok |-> NoToken,
     u |-> "nil", err |-> FALSE, why |-> "-"]

NoRelogin == [ph |-> "none", fn |-> "nil", why |-> "-"]

NoStream == [kind |-> "none", s |-> 0, closes |-> 0]

NoOp ==
    [op |-> "-", e |-> "", p |-> "", u |-> "nil", ret |-> "none",
     tok |-> NoToken, why |-> "-", fresh |-> FALSE, acquired |-> FALSE,
     sent |-> NoToken]

\* ------------------------------------------------ httpGET / httpPOST / ...
\* The transport may or may not have read the body reader of a streaming
\* POST by the time the response is there.
Eats(kind) == IF kind = "POSTReader" THEN BOOLEAN ELSE {FALSE}

\* operation(): the request is built (addHeaders reads h.bearer) and sent.
Sent(f, b, e) ==
    [f EXCEPT !.ph = "wait", !.n = @ + 1, !.hdr = AuthHeader(b),
              !.resent = @ \/ (f.n >= 1 /\ f.eaten), !.eaten = @ \/ e]

CallFrame(kind, ep, s) == [NoReq EXCEPT !.kind = kind, !.ep = ep, !.s = s]

\* A call of httpGET, httpPOST or httpPOSTReader (or a bare h.c.Do, kind
\* "Do") starts with the first execution of operation().
NewCall(t, L, kind, ep, s) ==
    \E e \in Eats(kind) :
        rq' = [rq EXCEPT ![t][L] = Sent(CallFrame(kind, ep, s), bearer[s], e)]

\* The second block of withRetryOnAuthError: API-level auth errors.
SecondBlock(r, fn) ==
    IF ~r.err /\ r.body # "nil" /\ IsAuthError(r.body) /\ fn # "nil"
    THEN "relogin2" ELSE "done"

\* The first block: HTTP-level auth errors; without one, or without a
\* reloginFunc, the second block is next.
FirstBlock(r, fn) ==
    IF ~r.err /\ IsAuthStatus(r.status) /\ fn # "nil"
    THEN "relogin1" ELSE SecondBlock(r, fn)

ReloginCall(fn) == [NoRelogin EXCEPT !.ph = "call", !.fn = fn]

\* operation() returns.  The first result goes through the auth handling:
\* a block that finds an auth error and a reloginFunc saves the bearer,
\* clears it and calls reloginFunc.  The result of the retry is returned as
\* it is, and a request sent with h.c.Do is not wrapped at all.
Operation_Return(t, L, resp) ==
    /\ rq[t][L].ph = "wait"
    /\ LET f == rq[t][L]
           s == f.s
           next == IF f.n = 1 /\ f.kind # "Do"
                   THEN FirstBlock(resp, reloginFn[s]) ELSE "done"
       IN /\ rq' = [rq EXCEPT ![t][L] =
                      [f EXCEPT !.ph = next,
                                !.r1 = IF f.n = 1 THEN resp ELSE @,
                                !.res = IF next = "done" THEN resp ELSE @,
                                !.old = IF next = "done" THEN @ ELSE bearer[s]]]
          /\ IF next = "done"
             THEN UNCHANGED <<bearer, rl>>
             ELSE /\ bearer' = [bearer EXCEPT ![s] = NoToken]
                  /\ rl' = [rl EXCEPT ![t] = ReloginCall(reloginFn[s])]

\* reloginFunc has returned: on success operation() is executed again; on
\* failure the old token is restored and the code goes on, from the first
\* block to the second, from the second to the final return.
WithRetry_AfterRelogin(t, L) ==
    /\ rq[t][L].ph \in {"relogin1", "relogin2"}
    /\ rl[t].ph \in {"ok", "fail"}
    /\ LET f == [rq[t][L] EXCEPT !.rls = Append(@, rl[t].why)]
           s == f.s
           next == IF f.ph = "relogin1"
                   THEN SecondBlock(f.r1, reloginFn[s]) ELSE "done"
       IN IF RetryAfterRelogin(rl[t].ph = "ok")
          THEN /\ \E e \in Eats(f.kind) :
                    rq' = [rq EXCEPT ![t][L] = Sent(f, bearer[s], e)]
               /\ rl' = [rl EXCEPT ![t] = NoRelogin]
               /\ UNCHANGED bearer
          ELSE /\ rq' = [rq EXCEPT ![t][L] =
                           [f EXCEPT !.ph = next,
                                     !.res = IF next = "done" THEN f.r1 ELSE @]]
               /\ bearer' = [bearer EXCEPT ![s] =
                               IF next = "done" THEN f.old ELSE NoToken]
               /\ rl' = [rl EXCEPT ![t] =
                           IF next = "done" THEN NoRelogin
                           ELSE ReloginCall(reloginFn[s])]
    /\ UNCHANGED <<calls, poolVars, clientVars, serverVars, facadeVars,
                   reloginFn, lg>>

\* A ReloginFunc supplied by a user of the api package: it fails, or it
\* succeeds after installing a token on the sender.
ReloginFunc_Custom(t, ok, tok) ==
    /\ rl[t].ph = "call"
    /\ rl[t].fn = "custom"
    /\ rl' = [rl EXCEPT ![t].ph = IF ok THEN "ok" ELSE "fail",
                        ![t].why = IF ok THEN "ok" ELSE "failed"]
    /\ bearer' = IF ok THEN [bearer EXCEPT ![rq[t][1].s] = tok] ELSE bearer
    /\ UNCHANGED <<calls, poolVars, clientVars, serverVars, facadeVars,
                   reloginFn, rq, lg>>

\* ------------------------------------- api.LoginWithUsernameAndPassword
\* return (u, err); why tells where the login stopped.
LoginBack(f, u, err, why) ==
    [f EXCEPT !.ph = "back", !.u = u, !.err = err, !.why = why]

\* The login starts with h.httpGET("/current-server-time").
LoginFrame(s, e, p) ==
    [NoLogin EXCEPT !.ph = "time", !.s = s, !.e = e, !.p = p]

\* The server time is checked and parsed, the proof of work computed and
\* h.httpPOST("/login", ...) called.
Login_PostLogin(t, L) ==
    /\ lg[t][L].ph = "time"
    /\ rq[t][L].ph = "done"
    /\ LET r == rq[t][L].res
           f == lg[t][L]
       IN IF r.err \/ ~StatusOK(r.status)
          THEN /\ lg' = [lg EXCEPT ![t][L] = LoginBack(f, "nil", r.err, "time")]
               /\ rq' = [rq EXCEPT ![t][L] = NoReq]
          ELSE IF ~ParsesAsJSON(r.body)
          THEN /\ lg' = [lg EXCEPT ![t][L] = LoginBack(f, "nil", TRUE, "time")]
               /\ rq' = [rq EXCEPT ![t][L] = NoReq]
          ELSE /\ lg' = [lg EXCEPT ![t][L].ph = "login"]
               /\ NewCall(t, L, "POST", "login", f.s)
    /\ UNCHANGED <<calls, poolVars, clientVars, serverVars, facadeVars,
                   bearer, reloginFn, rl>>

\* The login response is parsed; with a token in it UserData(h) is called,
\* before the token is stored on the sender.  Without a token the function
\* returns (nil, err) with the err of the request or of the parsing.
Login_AfterLogin(t, L) ==
    /\ lg[t][L].ph = "login"
    /\ rq[t][L].ph = "done"
    /\ LET r == rq[t][L].res
           f == [lg[t][L] EXCEPT !.tok = r.tok]
       IN IF StatusOK(r.status) /\ ~r.err
          THEN IF ParsesAsJSON(r.body) /\ r.tok # NoToken
               THEN IF UserDataHasBearer(bearer[f.s])
                    THEN /\ lg' = [lg EXCEPT ![t][L] = [f EXCEPT !.ph = "ud"]]
                         /\ NewCall(t, L, "GET", "userdata", f.s)
                    ELSE /\ lg' = [lg EXCEPT ![t][L] =
                                     LoginBack(f, "nil", TRUE, "nobearer")]
                         /\ rq' = [rq EXCEPT ![t][L] = NoReq]
               ELSE /\ lg' = [lg EXCEPT ![t][L] =
                                LoginBack(f, "nil", ~ParsesAsJSON(r.body),
                                          "login")]
                    /\ rq' = [rq EXCEPT ![t][L] = NoReq]
          ELSE /\ lg' = [lg EXCEPT ![t][L] =
                           LoginBack(f, "nil", r.err, "login")]
               /\ rq' = [rq EXCEPT ![t][L] = NoReq]
    /\ UNCHANGED <<calls, poolVars, clientVars, serverVars, facadeVars,
                   bearer, reloginFn, rl>>

\* UserData has returned; on success h.SetBearerToken(lr.Token).
Login_AfterUserData(t, L) ==
    /\ lg[t][L].ph = "ud"
    /\ rq[t][L].ph = "done"
    /\ LET r == rq[t][L].res
           f == lg[t][L]
       IN IF r.err \/ r.status >= 400 \/ ~ParsesAsJSON(r.body)
          THEN /\ lg' = [lg EXCEPT ![t][L] =
                           LoginBack(f, "nil", TRUE, "userdata")]
               /\ UNCHANGED bearer
          ELSE /\ lg' = [lg EXCEPT ![t][L] = LoginBack(f, "user", FALSE, "ok")]
               /\ bearer' = [bearer EXCEPT ![f.s] = f.tok]
    /\ rq' = [rq EXCEPT ![t][L] = NoReq]
    /\ UNCHANGED <<calls, poolVars, clientVars, serverVars, facadeVars, reloginFn, rl>>

\* ------------------------------------------------------- HTTPClientPool
\* SetBearerToken writes the pool's bearer and that of every client of the
\* pool, held or not.
PoolSetBearer(tok) ==
    [s \in AllSenders |-> IF s \in 1..poolSize THEN tok ELSE bearer[s]]

\* Acquire copies the pool's bearer to the client unless it is empty.
AcquireBearer(pb, cb) == IF pb # NoToken THEN pb ELSE cb

\* Release copies the client's bearer to the pool when it is not empty and
\* differs.
ReleaseBearer(pb, cb) == IF cb # NoToken /\ cb # pb THEN cb ELSE pb

\* ------------------------------------------------------- Client.relogin
\* relogin's sender comes from api.NewHTTPClientWithEnv(), which returns at
\* once; taking it from the pool would wait for a sender to be there.
ReloginFromPool == Len(pool) > 0
ReloginSenderReady == TRUE

\* Without credentials relogin fails at once; otherwise it creates a
\* standalone sender (no bearer, no reloginFunc) and logs in with it.
Relogin_Start(t) ==
    /\ rl[t].ph = "call"
    /\ rl[t].fn = "relogin"
    /\ ReloginSenderReady
    /\ IF email = "" \/ password = ""
       THEN /\ rl' = [rl EXCEPT ![t].ph = "fail", ![t].why = "nocreds"]
            /\ UNCHANGED <<lg, rq, bearer>>
       ELSE /\ rl' = [rl EXCEPT ![t].ph = "login"]
            /\ bearer' = [bearer EXCEPT ![Standalone(t)] = NoToken]
            /\ lg' = [lg EXCEPT ![t][2] =
                        LoginFrame(Standalone(t), email, password)]
            /\ rq' = [rq EXCEPT ![t][2] =
                        Sent(CallFrame("GET", "time", Standalone(t)),
                             NoToken, FALSE)]
    /\ UNCHANGED <<calls, poolVars, clientVars, serverVars, facadeVars,
                   reloginFn>>

\* The login has returned: its error is relogin's; without error the
\* standalone sender's bearer goes to the pool and the user is replaced.
Relogin_Finish(t) ==
    /\ rl[t].ph = "login"
    /\ lg[t][2].ph = "back"
    /\ IF lg[t][2].err
       THEN /\ rl' = [rl EXCEPT ![t].ph = "fail", ![t].why = lg[t][2].why]
            /\ UNCHANGED <<poolBearer, bearer, user, lastSet>>
       ELSE /\ rl' = [rl EXCEPT ![t].ph = "ok", ![t].why = lg[t][2].why]
            /\ poolBearer' = bearer[Standalone(t)]
            /\ bearer' = PoolSetBearer(bearer[Standalone(t)])
            /\ user' = lg[t][2].u
            /\ lastSet' = NoToken
    /\ lg' = [lg EXCEPT ![t][2] = NoLogin]
    /\ UNCHANGED <<calls, poolSize, pool, poolRelogin, email, password,
                   serverVars, pc, fr, held, stream, reloginFn, rq>>

\* ---------------------------------------------------------- the Service
\* The Service accepts one account.
Accepts(e, p) == e = "alice" /\ p = "pw"

\* The token the next accepted login is answered with.
NextToken == IF issued < MaxTok THEN Tok(issued + 1) ELSE Tok(issued)

\* What the Service may answer to the request of frame f: the time and login
\* endpoints need no bearer; every other endpoint answers with an auth
\* failure (status 401, or code 1001 in the body) unless the request carries
\* a token the Service accepts.  The POST of a streaming upload is answered
\* with success only once its body has ended.
Answers(t, L) ==
    LET f == rq[t][L]
    IN CASE f.ep = "time" -> {RespOK}
         [] f.ep = "login" ->
              IF Accepts(lg[t][L].e, lg[t][L].p)
              THEN {[RespOK EXCEPT !.tok = NextToken]}
              ELSE {RespRefused}
         [] f.ep = "upload" ->
              IF f.hdr \in valid
              THEN IF stream[t - NCallers].closes >= 1 THEN {RespOK} ELSE {}
              ELSE {Resp401, Resp1001}
         [] OTHER ->
              IF f.hdr \in valid THEN {RespOK} ELSE {Resp401, Resp1001}

Server_Respond(t, L) ==
    /\ pc[t] # "direct"
    /\ rq[t][L].ph = "wait"
    /\ \E resp \in Answers(t, L) :
         /\ Operation_Return(t, L, resp)
         /\ IF resp.tok # NoToken
            THEN /\ valid' = valid \cup {resp.tok}
                 /\ issued' = IF issued < MaxTok THEN issued + 1 ELSE issued
            ELSE UNCHANGED serverVars
    /\ UNCHANGED <<calls, poolVars, clientVars, facadeVars, reloginFn, lg>>

\* ------------------------------------------- a sender used on its own
\* Thread 1 owns sender 1 (NewHTTPClientWithEnv) and calls it directly.
SenderInit ==
    /\ poolSize = 0
    /\ pool = <<>>
    /\ poolBearer = NoToken
    /\ poolRelogin = "nil"
    /\ bearer = [s \in AllSenders |-> NoToken]
    /\ reloginFn = [s \in AllSenders |-> "nil"]
    /\ user = "nil"
    /\ email = ""
    /\ password = ""
    /\ valid = {}
    /\ issued = 0
    /\ pc = [t \in Threads |-> IF t = 1 THEN "direct" ELSE "off"]
    /\ fr = [t \in Threads |-> NoOp]
    /\ held = [t \in Threads |-> IF t = 1 THEN 1 ELSE 0]
    /\ rq = [t \in Threads |-> [L \in Levels |-> NoReq]]
    /\ lg = [t \in Threads |-> [L \in Levels |-> NoLogin]]
    /\ rl = [t \in Threads |-> NoRelogin]
    /\ stream = [c \in Callers |-> NoStream]
    /\ lastSet = NoToken
    /\ calls = 0

Direct(t) == pc[t] = "direct" /\ rq[t][1].ph = "none"

Sender_SetBearerToken(t, b) ==
    /\ Direct(t)
    /\ bearer' = [bearer EXCEPT ![held[t]] = b]
    /\ UNCHANGED <<calls, poolVars, clientVars, serverVars, facadeVars, reloginFn,
                   rq, lg, rl>>

Sender_SetReloginFunc(t, fn) ==
    /\ Direct(t)
    /\ reloginFn' = [reloginFn EXCEPT ![held[t]] = fn]
    /\ UNCHANGED <<calls, poolVars, clientVars, serverVars, facadeVars, bearer,
                   rq, lg, rl>>

httpGET(t) ==
    /\ Direct(t)
    /\ NewCall(t, 1, "GET", "-", held[t])
    /\ UNCHANGED <<calls, poolVars, clientVars, serverVars, facadeVars, bearer,
                   reloginFn, lg, rl>>

httpPOST(t) ==
    /\ Direct(t)
    /\ NewCall(t, 1, "POST", "-", held[t])
    /\ UNCHANGED <<calls, poolVars, clientVars, serverVars, facadeVars, bearer,
                   reloginFn, lg, rl>>

httpPOSTReader(t) ==
    /\ Direct(t)
    /\ NewCall(t, 1, "POSTReader", "-", held[t])
    /\ UNCHANGED <<calls, poolVars, clientVars, serverVars, facadeVars, bearer,
                   reloginFn, lg, rl>>

\* Any server: every (status, body, err) may come back.
Sender_Response(t) ==
    /\ pc[t] = "direct"
    /\ \E resp \in Responses : Operation_Return(t, 1, resp)
    /\ UNCHANGED <<calls, poolVars, clientVars, serverVars, facadeVars,
                   reloginFn, lg>>

\* The call returns to the user of the sender.
Sender_Return(t) ==
    /\ pc[t] = "direct"
    /\ rq[t][1].ph = "done"
    /\ rq' = [rq EXCEPT ![t][1] = NoReq]
    /\ UNCHANGED <<calls, poolVars, clientVars, serverVars, facadeVars, bearer,
                   reloginFn, lg, rl>>

SenderNext ==
    \/ \E b \in Bearers : Sender_SetBearerToken(1, b)
    \/ \E fn \in {"nil", "custom"} : Sender_SetReloginFunc(1, fn)
    \/ httpGET(1)
    \/ httpPOST(1)
    \/ httpPOSTReader(1)
    \/ Sender_Response(1)
    \/ \E ok \in BOOLEAN, tok \in Tokens : ReloginFunc_Custom(1, ok, tok)
    \/ WithRetry_AfterRelogin(1, 1)
    \/ Sender_Return(1)

SenderSpec == SenderInit /\ [][SenderNext]_vars

\* --------------------------------------------------------- the facade
\* NewClientWithPoolSize: a pool of poolSize senders, all in the channel;
\* nobody is logged in.  The Service knows one token handed out earlier.
Init ==
    /\ poolSize \in 1..MaxPool
    /\ pool = [i \in 1..poolSize |-> i]
    /\ poolBearer = NoToken
    /\ poolRelogin = "nil"
    /\ bearer = [s \in AllSenders |-> NoToken]
    /\ reloginFn = [s \in AllSenders |-> "nil"]
    /\ user = "nil"
    /\ email = ""
    /\ password = ""
    /\ valid = {Tok(1)}
    /\ issued = 1
    /\ pc = [t \in Threads |-> IF t \in Callers THEN "idle" ELSE "off"]
    /\ fr = [t \in Threads |-> NoOp]
    /\ held = [t \in Threads |-> 0]
    /\ rq = [t \in Threads |-> [L \in Levels |-> NoReq]]
    /\ lg = [t \in Threads |-> [L \in Levels |-> NoLogin]]
    /\ rl = [t \in Threads |-> NoRelogin]
    /\ stream = [c \in Callers |-> NoStream]
    /\ lastSet = NoToken
    /\ calls = 0

Range(q) == {q[i] : i \in 1..Len(q)}

\* defaultAuthChecks(false)
DefaultAuthChecks == user # "nil" \/ (email # "" /\ password # "")

\* SetReloginFunc writes the pool's reloginFunc and that of every client.
PoolSetRelogin(fn) ==
    [s \in AllSenders |-> IF s \in 1..poolSize THEN fn ELSE reloginFn[s]]

\* Where a streaming open goes when the api call fails after Acquire:
\* c.pool.Release(client), then return.
OnOpenErrorLeak == "ret"
OnOpenError == "rel"

\* Client.SetToken: pool.SetBearerToken under the pool's write lock.
SetToken(t, tok) ==
    /\ pc[t] = "idle"
    /\ calls < MaxCalls
    /\ calls' = calls + 1
    /\ poolBearer' = tok
    /\ bearer' = PoolSetBearer(tok)
    /\ lastSet' = tok
    /\ UNCHANGED <<poolSize, pool, poolRelogin, clientVars, serverVars, pc,
                   fr, held, stream, reloginFn, rq, lg, rl>>

\* Client.SetCredentials
SetCredentials(t, e, p) ==
    /\ pc[t] = "idle"
    /\ calls < MaxCalls
    /\ calls' = calls + 1
    /\ email' = e
    /\ password' = p
    /\ IF user # "nil"
       THEN /\ poolRelogin' = "relogin"
            /\ reloginFn' = PoolSetRelogin("relogin")
       ELSE UNCHANGED <<poolRelogin, reloginFn>>
    /\ UNCHANGED <<poolSize, pool, poolBearer, user, serverVars, facadeVars,
                   bearer, rq, lg, rl>>

\* An operation starts: after its checks it asks the pool for a sender.
Begin(t, op, e, p, ok) ==
    /\ pc[t] = "idle"
    /\ calls < MaxCalls
    /\ calls' = calls + 1
    /\ pc' = [pc EXCEPT ![t] = IF ok THEN "acq" ELSE "ret"]
    /\ fr' = [fr EXCEPT ![t] =
                [NoOp EXCEPT !.op = op, !.e = e, !.p = p,
                             !.ret = IF ok THEN "none" ELSE "err",
                             !.fresh = poolBearer = NoToken
                                 /\ \A s \in 1..poolSize : bearer[s] = NoToken]]

\* Client.LoginWithUsernameAndPassword
ClientLogin(t, e, p) ==
    /\ Begin(t, "Login", e, p, TRUE)
    /\ UNCHANGED <<poolVars, clientVars, serverVars, held, stream, lastSet,
                   bearer, reloginFn, rq, lg, rl>>

\* Client.ListFolder
ListFolder(t) ==
    /\ Begin(t, "ListFolder", "", "", DefaultAuthChecks)
    /\ UNCHANGED <<poolVars, clientVars, serverVars, held, stream, lastSet,
                   bearer, reloginFn, rq, lg, rl>>

\* Client.ListFolderTrash
ListFolderTrash(t) ==
    /\ Begin(t, "ListFolderTrash", "", "", DefaultAuthChecks)
    /\ UNCHANGED <<poolVars, clientVars, serverVars, held, stream, lastSet,
                   bearer, reloginFn, rq, lg, rl>>

\* Client.UploadFileWriter
UploadFileWriter(t) ==
    /\ stream[t].kind = "none"
    /\ pc[Bg(t)] = "off"
    /\ Begin(t, "UploadFileWriter", "", "", DefaultAuthChecks)
    /\ UNCHANGED <<poolVars, clientVars, serverVars, held, stream, lastSet,
                   bearer, reloginFn, rq, lg, rl>>

\* Client.DownloadFileStream
DownloadFileStream(t) ==
    /\ stream[t].kind = "none"
    /\ Begin(t, "DownloadFileStream", "", "", DefaultAuthChecks)
    /\ UNCHANGED <<poolVars, clientVars, serverVars, held, stream, lastSet,
                   bearer, reloginFn, rq, lg, rl>>

\* HTTPClientPool.Acquire: receive from the channel, then copy the shared
\* state to the client.
Acquire(t) ==
    /\ pc[t] = "acq"
    /\ Len(pool) > 0
    /\ LET s == Head(pool)
       IN /\ pool' = Tail(pool)
          /\ held' = [held EXCEPT ![t] = s]
          /\ bearer' = [bearer EXCEPT ![s] = AcquireBearer(poolBearer, @)]
          /\ reloginFn' = [reloginFn EXCEPT ![s] =
                             IF poolRelogin # "nil" THEN poolRelogin ELSE @]
    /\ pc' = [pc EXCEPT ![t] = "start"]
    /\ fr' = [fr EXCEPT ![t].acquired = TRUE]
    /\ UNCHANGED <<calls, poolSize, poolBearer, poolRelogin, clientVars,
                   serverVars, stream, lastSet, rq, lg, rl>>

\* Where a thread is after Release: WithClient and the open functions
\* return, the two logins go on after WithClient.
AfterRelease(t) ==
    CASE fr[t].op = "Login" -> "fin"
      [] fr[t].op = "LoginBearer" -> "finb"
      [] OTHER -> "ret"

Released(t) ==
    /\ pool' = Append(pool, held[t])
    /\ held' = [held EXCEPT ![t] = 0]
    /\ pc' = [pc EXCEPT ![t] = AfterRelease(t)]
    /\ fr' = [fr EXCEPT ![t].ret = IF fr[t].op = "Close" THEN "ok" ELSE @]

\* HTTPClientPool.Release: the token is synced under the lock, then the
\* client is sent to the channel, which blocks while the channel is full.
Release(t) ==
    /\ pc[t] = "rel"
    /\ poolBearer' = ReleaseBearer(poolBearer, bearer[held[t]])
    /\ IF Len(pool) < poolSize
       THEN Released(t)
       ELSE /\ pc' = [pc EXCEPT ![t] = "rel2"]
            /\ UNCHANGED <<pool, held, fr>>
    /\ UNCHANGED <<calls, poolSize, poolRelogin, clientVars, serverVars,
                   stream, lastSet, bearer, reloginFn, rq, lg, rl>>

\* A blocked send to the channel goes through once there is room.
Release_Send(t) ==
    /\ pc[t] = "rel2"
    /\ Len(pool) < poolSize
    /\ Released(t)
    /\ UNCHANGED <<calls, poolSize, poolBearer, poolRelogin, clientVars,
                   serverVars, stream, lastSet, bearer, reloginFn, rq, lg, rl>>

\* The operation returns to its caller.
Return(t) ==
    /\ pc[t] = "ret"
    /\ pc' = [pc EXCEPT ![t] = "idle"]
    /\ fr' = [fr EXCEPT ![t] = NoOp]
    /\ UNCHANGED <<calls, poolVars, clientVars, serverVars, held, stream, lastSet,
                   bearer, reloginFn, rq, lg, rl>>

\* Client.LoginWithUsernameAndPassword, inside WithClient
ClientLogin_Call(t) ==
    /\ pc[t] = "start"
    /\ fr[t].op = "Login"
    /\ lg' = [lg EXCEPT ![t][1] = LoginFrame(held[t], fr[t].e, fr[t].p)]
    /\ NewCall(t, 1, "GET", "time", held[t])
    /\ pc' = [pc EXCEPT ![t] = "run"]
    /\ UNCHANGED <<calls, poolVars, clientVars, serverVars, fr, held, stream,
                   lastSet, bearer, reloginFn, rl>>

ClientLogin_Back(t) ==
    /\ pc[t] = "run"
    /\ fr[t].op = "Login"
    /\ lg[t][1].ph = "back"
    /\ fr' = [fr EXCEPT ![t].u = lg[t][1].u,
                        ![t].tok = lg[t][1].tok,
                        ![t].why = lg[t][1].why,
                        ![t].ret = IF lg[t][1].err THEN "err" ELSE "ok"]
    /\ lg' = [lg EXCEPT ![t][1] = NoLogin]
    /\ pc' = [pc EXCEPT ![t] = "rel"]
    /\ UNCHANGED <<calls, poolVars, clientVars, serverVars, held, stream, lastSet,
                   bearer, reloginFn, rq, rl>>

\* After WithClient: an error is returned; otherwise the user and the
\* credentials are stored and relogin is registered with the pool.
ClientLogin_Finish(t) ==
    /\ pc[t] = "fin"
    /\ IF fr[t].ret = "err"
       THEN UNCHANGED <<clientVars, poolRelogin, reloginFn, lastSet>>
       ELSE /\ lastSet' = NoToken
            /\ user' = fr[t].u
            /\ email' = fr[t].e
            /\ password' = fr[t].p
            /\ poolRelogin' = "relogin"
            /\ reloginFn' = PoolSetRelogin("relogin")
    /\ pc' = [pc EXCEPT ![t] = "ret"]
    /\ UNCHANGED <<calls, poolSize, pool, poolBearer, serverVars, fr, held,
                   stream, bearer, rq, lg, rl>>

\* api.GetCollection with the type the facade method passes: the bearer
\* check, the check of the type, then httpGET("/collection?...").
GetCollection_Start(t) ==
    /\ pc[t] = "start"
    /\ fr[t].op \in {"ListFolder", "ListFolderTrash"}
    /\ IF bearer[held[t]] = NoToken
       THEN /\ fr' = [fr EXCEPT ![t].ret = "err"]
            /\ pc' = [pc EXCEPT ![t] = "rel"]
            /\ UNCHANGED rq
       ELSE IF (IF fr[t].op = "ListFolderTrash" THEN "trash" ELSE "cloud")
                 \notin {"cloud", "crypto"}
       THEN /\ fr' = [fr EXCEPT ![t].ret = "err",
                                ![t].why = "invalid collection type"]
            /\ pc' = [pc EXCEPT ![t] = "rel"]
            /\ UNCHANGED rq
       ELSE /\ NewCall(t, 1, "GET", "collection", held[t])
            /\ pc' = [pc EXCEPT ![t] = "run"]
            /\ UNCHANGED fr
    /\ UNCHANGED <<calls, poolVars, clientVars, serverVars, held, stream, lastSet,
                   bearer, reloginFn, lg, rl>>

\* What every endpoint wrapper makes of (status, body, err).
WrapperError(r) ==
    r.err \/ r.status >= 400 \/ ~ParsesAsJSON(r.body) \/ r.body # "ok"

GetCollection_Done(t) ==
    /\ pc[t] = "run"
    /\ fr[t].op \in {"ListFolder", "ListFolderTrash"}
    /\ rq[t][1].ph = "done"
    /\ fr' = [fr EXCEPT ![t].ret =
                IF WrapperError(rq[t][1].res) THEN "err" ELSE "ok"]
    /\ rq' = [rq EXCEPT ![t][1] = NoReq]
    /\ pc' = [pc EXCEPT ![t] = "rel"]
    /\ UNCHANGED <<calls, poolVars, clientVars, serverVars, held, stream, lastSet,
                   bearer, reloginFn, lg, rl>>

\* api.NewUploadFileWriter: GetUploadEndpoints first.
NewUploadFileWriter_Endpoints(t) ==
    /\ pc[t] = "start"
    /\ fr[t].op = "UploadFileWriter"
    /\ NewCall(t, 1, "GET", "geo", held[t])
    /\ pc' = [pc EXCEPT ![t] = "run"]
    /\ UNCHANGED <<calls, poolVars, clientVars, serverVars, fr, held, stream,
                   lastSet, bearer, reloginFn, lg, rl>>

\* With an endpoint and the file's modification time (os.Stat) the pipes
\* are made, the goroutine calling h.httpPOSTReader is started and the
\* writer is returned, wrapped in a pooledWriter that keeps the sender.
NewUploadFileWriter_Open(t, statOK) ==
    /\ pc[t] = "run"
    /\ fr[t].op = "UploadFileWriter"
    /\ rq[t][1].ph = "done"
    /\ IF WrapperError(rq[t][1].res) \/ ~statOK
       THEN /\ fr' = [fr EXCEPT ![t].ret = "err"]
            /\ pc' = [pc EXCEPT ![t] = OnOpenError]
            /\ rq' = [rq EXCEPT ![t][1] = NoReq]
            /\ UNCHANGED <<held, stream>>
       ELSE /\ fr' = [fr EXCEPT ![t].ret = "ok"]
            /\ pc' = [pc EXCEPT ![t] = "ret", ![Bg(t)] = "go"]
            /\ rq' = [rq EXCEPT ![t][1] = NoReq]
            /\ held' = [held EXCEPT ![t] = 0, ![Bg(t)] = held[t]]
            /\ stream' = [stream EXCEPT ![t] =
                            [kind |-> "writer", s |-> held[t], closes |-> 0]]
    /\ UNCHANGED <<calls, poolVars, clientVars, serverVars, lastSet, bearer,
                   reloginFn, lg, rl>>

\* The goroutine calls h.httpPOSTReader(endpoint, ..., pr).
Upload_Post(b) ==
    /\ pc[b] = "go"
    /\ NewCall(b, 1, "POSTReader", "upload", held[b])
    /\ pc' = [pc EXCEPT ![b] = "post"]
    /\ UNCHANGED <<calls, poolVars, clientVars, serverVars, fr, held, stream,
                   lastSet, bearer, reloginFn, lg, rl>>

\* The goroutine's httpPOSTReader has returned; its result is dropped.
Upload_PostDone(b) ==
    /\ pc[b] = "post"
    /\ rq[b][1].ph = "done"
    /\ pc' = [pc EXCEPT ![b] = "off"]
    /\ rq' = [rq EXCEPT ![b][1] = NoReq]
    /\ held' = [held EXCEPT ![b] = 0]
    /\ UNCHANGED <<calls, poolVars, clientVars, serverVars, fr, stream, lastSet,
                   bearer, reloginFn, lg, rl>>

\* api.OpenDownloadStream: the bearer check, then GetDownloadURLs.
OpenDownloadStream_URLs(t) ==
    /\ pc[t] = "start"
    /\ fr[t].op = "DownloadFileStream"
    /\ IF bearer[held[t]] = NoToken
       THEN /\ fr' = [fr EXCEPT ![t].ret = "err"]
            /\ pc' = [pc EXCEPT ![t] = OnOpenError]
            /\ UNCHANGED rq
       ELSE /\ NewCall(t, 1, "GET", "dlmulti", held[t])
            /\ pc' = [pc EXCEPT ![t] = "run"]
            /\ UNCHANGED fr
    /\ UNCHANGED <<calls, poolVars, clientVars, serverVars, held, stream, lastSet,
                   bearer, reloginFn, lg, rl>>

\* The file itself is requested with h.c.Do, outside withRetryOnAuthError.
OpenDownloadStream_Get(t) ==
    /\ pc[t] = "run"
    /\ fr[t].op = "DownloadFileStream"
    /\ rq[t][1].ph = "done"
    /\ IF WrapperError(rq[t][1].res)
       THEN /\ fr' = [fr EXCEPT ![t].ret = "err"]
            /\ pc' = [pc EXCEPT ![t] = OnOpenError]
            /\ rq' = [rq EXCEPT ![t][1] = NoReq]
       ELSE /\ NewCall(t, 1, "Do", "file", held[t])
            /\ pc' = [pc EXCEPT ![t] = "get"]
            /\ UNCHANGED fr
    /\ UNCHANGED <<calls, poolVars, clientVars, serverVars, held, stream, lastSet,
                   bearer, reloginFn, lg, rl>>

\* A 2xx response's body is returned, wrapped in a pooledReader.
OpenDownloadStream_Open(t) ==
    /\ pc[t] = "get"
    /\ rq[t][1].ph = "done"
    /\ LET r == rq[t][1].res
       IN IF r.err \/ r.status < 200 \/ r.status >= 300
          THEN /\ fr' = [fr EXCEPT ![t].ret = "err"]
               /\ pc' = [pc EXCEPT ![t] = OnOpenError]
               /\ UNCHANGED <<held, stream>>
          ELSE /\ fr' = [fr EXCEPT ![t].ret = "ok"]
               /\ pc' = [pc EXCEPT ![t] = "ret"]
               /\ held' = [held EXCEPT ![t] = 0]
               /\ stream' = [stream EXCEPT ![t] =
                               [kind |-> "reader", s |-> held[t],
                                closes |-> 0]]
    /\ rq' = [rq EXCEPT ![t][1] = NoReq]
    /\ UNCHANGED <<calls, poolVars, clientVars, serverVars, lastSet, bearer,
                   reloginFn, lg, rl>>

\* pooledWriter.Close / pooledReader.Close: close the inner stream, then
\* pool.Release(client), whatever was done before.
Stream_Close(t) ==
    /\ pc[t] = "idle"
    /\ stream[t].kind # "none"
    /\ stream[t].closes < MaxCloses
    /\ stream' = [stream EXCEPT ![t].closes = @ + 1]
    /\ held' = [held EXCEPT ![t] = stream[t].s]
    /\ fr' = [fr EXCEPT ![t] = [NoOp EXCEPT !.op = "Close"]]
    /\ pc' = [pc EXCEPT ![t] = "rel"]
    /\ UNCHANGED <<calls, poolVars, clientVars, serverVars, lastSet, bearer,
                   reloginFn, rq, lg, rl>>

\* The caller drops a stream it has closed.
Stream_Drop(t) ==
    /\ pc[t] = "idle"
    /\ stream[t].kind # "none"
    /\ stream[t].closes >= 1
    /\ pc[Bg(t)] = "off"
    /\ stream' = [stream EXCEPT ![t] = NoStream]
    /\ UNCHANGED <<calls, poolVars, clientVars, serverVars, pc, fr, held, lastSet,
                   bearer, reloginFn, rq, lg, rl>>

\* ----------------------------------------------------------------- Next
CredentialInputs == {<<"alice", "pw">>, <<"alice", "bad">>, <<"", "">>}

Step(t) ==
    \/ Server_Respond(t, 1) \/ Server_Respond(t, 2)
    \/ WithRetry_AfterRelogin(t, 1)
    \/ Relogin_Start(t)
    \/ Relogin_Finish(t)
    \/ Login_PostLogin(t, 1) \/ Login_PostLogin(t, 2)
    \/ Login_AfterLogin(t, 1) \/ Login_AfterLogin(t, 2)
    \/ Login_AfterUserData(t, 1)
    \/ Acquire(t)
    \/ Release(t)
    \/ Release_Send(t)
    \/ ClientLogin_Call(t)
    \/ ClientLogin_Back(t)
    \/ ClientLogin_Finish(t)
    \/ GetCollection_Start(t)
    \/ GetCollection_Done(t)
    \/ NewUploadFileWriter_Endpoints(t)
    \/ \E statOK \in BOOLEAN : NewUploadFileWriter_Open(t, statOK)
    \/ Upload_Post(t)
    \/ Upload_PostDone(t)
    \/ OpenDownloadStream_URLs(t)
    \/ OpenDownloadStream_Get(t)
    \/ OpenDownloadStream_Open(t)
    \/ Return(t)

Call(t) ==
    \/ \E tok \in {Tok(1), StaleToken} : SetToken(t, tok)
    \/ \E c \in CredentialInputs : SetCredentials(t, c[1], c[2])
    \/ \E c \in CredentialInputs \ {<<"", "">>} : ClientLogin(t, c[1], c[2])
    \/ ListFolder(t)
    \/ UploadFileWriter(t)
    \/ DownloadFileStream(t)
    \/ Stream_Close(t)
    \/ Stream_Drop(t)

Next ==
    \/ \E t \in Callers : Call(t)
    \/ \E t \in Threads : Step(t)

Spec == Init /\ [][Next]_vars

\* ------------------------------------------ one-sender pool, fair threads
\* A client with one sender whose callers set tokens and credentials, log
\* in and list folders; every thread that can take a step eventually does,
\* and the Service answers every request.
LiveInit == Init /\ poolSize = 1

LiveStep(t) ==
    \/ Server_Respond(t, 1) \/ Server_Respond(t, 2)
    \/ WithRetry_AfterRelogin(t, 1)
    \/ Relogin_Start(t)
    \/ Relogin_Finish(t)
    \/ Login_PostLogin(t, 1) \/ Login_PostLogin(t, 2)
    \/ Login_AfterLogin(t, 1) \/ Login_AfterLogin(t, 2)
    \/ Login_AfterUserData(t, 1)
    \/ Acquire(t)
    \/ Release(t)
    \/ ClientLogin_Call(t)
    \/ ClientLogin_Back(t)
    \/ ClientLogin_Finish(t)
    \/ GetCollection_Start(t)
    \/ GetCollection_Done(t)
    \/ Return(t)

LiveCall(t) ==
    \/ \E tok \in {Tok(1), StaleToken} : SetToken(t, tok)
    \/ \E c \in CredentialInputs : SetCredentials(t, c[1], c[2])
    \/ \E c \in CredentialInputs \ {<<"", "">>} : ClientLogin(t, c[1], c[2])
    \/ ListFolder(t)

LiveNext ==
    \/ \E t \in Callers : LiveCall(t)
    \/ \E t \in Callers : LiveStep(t)

LiveSpec ==
    LiveInit /\ [][LiveNext]_vars /\ \A t \in Callers : WF_vars(LiveStep(t))

\* ------------------------------------------------------------ properties
\* A request is in flight on a sender of the pool.
Executing(t) == rq[t][1].ph = "wait" /\ rq[t][1].s \in 1..poolSize

\* No operation is in progress and no stream is open.
Quiescent ==
    \A t \in Callers :
        pc[t] = "idle" /\ (stream[t].kind = "none" \/ stream[t].closes >= 1)

AllSendersInPool == \A s \in 1..poolSize : s \in Range(pool)

\* C1: for a GET or POST call whose first response has status 401 and no
\* transport error: when reloginFunc returned success the request was
\* executed exactly twice; when reloginFunc returned an error, or none is
\* registered, it was executed exactly once.
C1_RetryCount ==
    \A t \in Threads :
        LET f == rq[t][1]
        IN (/\ f.ph = "done"
            /\ f.kind \in {"GET", "POST"}
            /\ ~f.r1.err
            /\ f.r1.status = 401)
           => /\ (\E i \in 1..Len(f.rls) : f.rls[i] = "ok") => f.n = 2
              /\ (f.rls = <<>> \/ \E i \in 1..Len(f.rls) : f.rls[i] # "ok")
                    => f.n = 1

\* C2: at most one re-login runs at any instant: the login handshake of
\* Client.relogin is never in progress in two threads at once.
C2_OneReloginAtATime ==
    Cardinality({t \in Threads : rl[t].ph = "login"}) <= 1

\* C3: for a client logged in with credentials, a ListFolder whose first
\* /collection GET is answered with code 1001, and every later request with
\* success, returns the success data after exactly one login between the
\* two /collection attempts.
C3_ListFolderAfter1001 ==
    \A t \in Callers :
        LET f == rq[t][1]
        IN (/\ fr[t].op = "ListFolder"
            /\ f.ph = "done"
            /\ f.r1 = Resp1001
            /\ user # "nil" /\ Accepts(email, password)
            /\ f.rls # <<>> /\ f.rls[1] \in {"ok", "nobearer"}
            /\ (f.n >= 2 => f.res = RespOK))
           => /\ f.res = RespOK
              /\ f.n = 2
              /\ f.rls = <<"ok">>

\* C4: at every instant at most poolSize requests are executing on pool
\* senders, the background POST of a streaming upload included, and no
\* sender executes a request while it is in the pool or for two threads.
C4_AtMostNExecuting ==
    /\ Cardinality({t \in Threads : Executing(t)}) <= poolSize
    /\ \A t \in Threads : Executing(t) => rq[t][1].s \notin Range(pool)
    /\ \A t, u \in Threads :
          (Executing(t) /\ Executing(u) /\ t # u) => rq[t][1].s # rq[u][1].s

\* C5: after a completed pool SetBearerToken(tok), and until the next
\* setter, login or successful re-login, the sender the next Acquire
\* returns has bearer tok.
C5_AcquireSeesLastSet ==
    (/\ lastSet # NoToken
     /\ pool # <<>>
     /\ \A t \in Callers : fr[t].op # "Login")
    => AcquireBearer(poolBearer, bearer[Head(pool)]) = lastSet

\* C6: a stream gives its sender back exactly once however often Close is
\* called: no sender is in the pool twice and no Close waits in Release.
C6_ReleasedOnce ==
    /\ \A i, j \in 1..Len(pool) : i # j => pool[i] # pool[j]
    /\ \A t \in Callers : ~(fr[t].op = "Close" /\ pc[t] = "rel2")

\* C7: an operation that has returned holds no sender, and whenever no
\* operation is in progress and no stream is open every sender is in the
\* pool.
C7_SendersReturned ==
    /\ \A t \in Callers : pc[t] = "ret" => held[t] = 0
    /\ Quiescent => AllSendersInPool

\* A streaming open failed after Acquire and has returned; nothing else is
\* going on and the pool is complete.
C7_Witness ==
    \E t \in Callers :
        /\ pc[t] = "ret"
        /\ fr[t].op \in {"UploadFileWriter", "DownloadFileStream"}
        /\ fr[t].acquired
        /\ fr[t].ret = "err"
        /\ \A u \in Callers \ {t} : pc[u] = "idle"
        /\ \A u \in Callers : stream[u].kind = "none"
        /\ AllSendersInPool

\* C8: with one sender in the pool, a facade request whose auth failure
\* has triggered the re-login eventually returns.
C8_ReloginReturns ==
    \A t \in Callers :
        (poolSize = 1 /\ held[t] # 0 /\ rl[t].ph = "call") ~> (pc[t] = "ret")

\* The re-login runs on its standalone sender while the caller holds the
\* pool's only sender.
C8_Witness ==
    \E t \in Callers :
        /\ poolSize = 1
        /\ held[t] # 0
        /\ pool = <<>>
        /\ rl[t].ph = "login"
        /\ rq[t][2].ph = "wait"

\* C9: a streaming POST is never executed again once its body reader has
\* been read.
C9_NoResendOfConsumedBody ==
    \A t \in Threads : rq[t][1].kind = "POSTReader" => ~rq[t][1].resent

\* C10: a login that starts with an empty bearer on every sender, and to
\* which the Service answers with a token, returns without error; then the
\* session's bearer is that token, the credentials are kept and relogin is
\* the pool's re-login callback.
C10_LoginFromFresh ==
    \A t \in Callers :
        (/\ pc[t] = "ret"
         /\ fr[t].op = "Login"
         /\ fr[t].fresh
         /\ fr[t].why \in {"ok", "nobearer"}
         /\ fr[t].tok # NoToken)
        => /\ fr[t].ret = "ok"
           /\ poolBearer = fr[t].tok
           /\ email = fr[t].e
           /\ password = fr[t].p
           /\ poolRelogin = "relogin"

\* C14: when a re-login of the call returned an error, the sender's bearer
\* after the call equals its bearer before the call.
C14_BearerRestored ==
    \A t \in Threads :
        LET f == rq[t][1]
        IN (f.ph = "done" /\ \E i \in 1..Len(f.rls) : f.rls[i] # "ok")
           => bearer[f.s] = f.old

\* C15: when no reloginFunc is registered, or a re-login of the call
\* failed, the call returns the first attempt's result unchanged.
C15_FirstResultReturned ==
    \A t \in Threads :
        LET f == rq[t][1]
        IN (f.ph = "done"
            /\ (reloginFn[f.s] = "nil"
                \/ \E i \in 1..Len(f.rls) : f.rls[i] # "ok"))
           => f.res = f.r1

Wrappers ==
    {"GetCollection", "GetFolderProperties", "RenameFile", "RenameFolder",
     "Move", "Delete", "TrashAdd", "TrashRestore", "TrashEraseAll",
     "GetUploadEndpoints", "GetDownloadURLs", "ListVersions",
     "GetStorageStats"}

\* The wrappers that start with
\*   if strings.TrimSpace(h.bearer) == "" { return ..., "missing bearer token" }
HasBearerCheck(w) ==
    w \in {"GetCollection", "GetFolderProperties", "TrashEraseAll",
           "GetDownloadURLs", "GetStorageStats"}

\* The sender method the wrapper calls.
WrapperKind(w) ==
    IF w \in {"RenameFile", "RenameFolder", "Move", "Delete", "TrashAdd",
              "TrashRestore"}
    THEN "POST" ELSE "GET"

\* A wrapper is called: its bearer check, where it has one, returns the
\* error at once; otherwise the request is built and sent.
Wrapper_Call(t, w) ==
    /\ Direct(t)
    /\ fr[t].op = "-"
    /\ IF HasBearerCheck(w) /\ bearer[held[t]] = NoToken
       THEN /\ fr' = [fr EXCEPT ![t] =
                        [NoOp EXCEPT !.op = w, !.ret = "err",
                                     !.why = "nobearer", !.fresh = TRUE]]
            /\ UNCHANGED rq
       ELSE /\ fr' = [fr EXCEPT ![t] =
                        [NoOp EXCEPT !.op = w,
                                     !.fresh = bearer[held[t]] = NoToken]]
            /\ NewCall(t, 1, WrapperKind(w), w, held[t])
    /\ UNCHANGED <<calls, poolVars, clientVars, serverVars, pc, held, stream,
                   lastSet, bearer, reloginFn, lg, rl>>

\* The wrapper returns to its caller.
Wrapper_Return(t) ==
    /\ pc[t] = "direct"
    /\ fr[t].op # "-"
    /\ fr[t].ret = "err" \/ rq[t][1].ph = "done"
    /\ fr' = [fr EXCEPT ![t] = NoOp]
    /\ rq' = [rq EXCEPT ![t][1] = NoReq]
    /\ UNCHANGED <<calls, poolVars, clientVars, serverVars, pc, held, stream,
                   lastSet, bearer, reloginFn, lg, rl>>

ApiNext ==
    \/ \E b \in Bearers : Sender_SetBearerToken(1, b)
    \/ \E fn \in {"nil", "custom"} : Sender_SetReloginFunc(1, fn)
    \/ \E w \in Wrappers : Wrapper_Call(1, w)
    \/ Sender_Response(1)
    \/ \E ok \in BOOLEAN, tok \in Tokens : ReloginFunc_Custom(1, ok, tok)
    \/ WithRetry_AfterRelogin(1, 1)
    \/ Wrapper_Return(1)

ApiSpec == SenderInit /\ [][ApiNext]_vars

\* C12: a wrapper of an endpoint that requires authentication, called on a
\* sender whose bearer is empty, fails with the missing-bearer error and
\* sends no request.
C12_NoRequestWithoutBearer ==
    \A t \in Threads :
        (fr[t].op \in Wrappers /\ fr[t].fresh)
        => /\ fr[t].ret = "err"
           /\ fr[t].why = "nobearer"
           /\ rq[t][1].n = 0

\* ------------------------------------------------- one caller's session
\* Client.LoginWithBearerToken(token)
ClientLoginBearer(t, tok) ==
    /\ pc[t] = "idle"
    /\ calls < MaxCalls
    /\ calls' = calls + 1
    /\ pc' = [pc EXCEPT ![t] = "acq"]
    /\ fr' = [fr EXCEPT ![t] =
                [NoOp EXCEPT !.op = "LoginBearer", !.tok = tok,
                             !.fresh = poolBearer = NoToken
                                 /\ \A s \in 1..poolSize : bearer[s] = NoToken]]
    /\ UNCHANGED <<poolVars, clientVars, serverVars, held, stream, lastSet,
                   bearer, reloginFn, rq, lg, rl>>

\* api.LoginWithBearerToken starts with UserData(h): its bearer check, then
\* httpGET(".../user-data") with the bearer the sender has.
LoginWithBearerToken_Start(t) ==
    /\ pc[t] = "start"
    /\ fr[t].op = "LoginBearer"
    /\ IF ~UserDataHasBearer(bearer[held[t]])
       THEN /\ fr' = [fr EXCEPT ![t].ret = "err", ![t].why = "nobearer"]
            /\ pc' = [pc EXCEPT ![t] = "rel"]
            /\ UNCHANGED rq
       ELSE /\ NewCall(t, 1, "GET", "userdata", held[t])
            /\ pc' = [pc EXCEPT ![t] = "run"]
            /\ UNCHANGED fr
    /\ UNCHANGED <<calls, poolVars, clientVars, serverVars, held, stream,
                   lastSet, bearer, reloginFn, lg, rl>>

\* UserData has returned: its error is the login's; otherwise
\* h.SetBearerToken(token) and the user is returned.
LoginWithBearerToken_Done(t) ==
    /\ pc[t] = "run"
    /\ fr[t].op = "LoginBearer"
    /\ rq[t][1].ph = "done"
    /\ LET r == rq[t][1].res
       IN IF r.err \/ r.status >= 400 \/ ~ParsesAsJSON(r.body)
          THEN /\ fr' = [fr EXCEPT ![t].ret = "err", ![t].why = "userdata",
                                   ![t].sent = rq[t][1].hdr]
               /\ UNCHANGED bearer
          ELSE /\ fr' = [fr EXCEPT ![t].ret = "ok", ![t].why = "ok",
                                   ![t].u = "user",
                                   ![t].sent = rq[t][1].hdr]
               /\ bearer' = [bearer EXCEPT ![held[t]] = fr[t].tok]
    /\ rq' = [rq EXCEPT ![t][1] = NoReq]
    /\ pc' = [pc EXCEPT ![t] = "rel"]
    /\ UNCHANGED <<calls, poolVars, clientVars, serverVars, held, stream,
                   lastSet, reloginFn, lg, rl>>

\* After WithClient: an error is returned; otherwise the user is stored
\* and, with credentials set before, relogin is registered with the pool.
ClientLoginBearer_Finish(t) ==
    /\ pc[t] = "finb"
    /\ IF fr[t].ret = "err"
       THEN UNCHANGED <<user, poolRelogin, reloginFn, lastSet>>
       ELSE /\ lastSet' = NoToken
            /\ user' = fr[t].u
            /\ IF email # "" /\ password # ""
               THEN /\ poolRelogin' = "relogin"
                    /\ reloginFn' = PoolSetRelogin("relogin")
               ELSE UNCHANGED <<poolRelogin, reloginFn>>
    /\ pc' = [pc EXCEPT ![t] = "ret"]
    /\ UNCHANGED <<calls, poolSize, pool, poolBearer, email, password,
                   serverVars, fr, held, stream, bearer, rq, lg, rl>>

\* Client.TrashItem (as Client.TrashEraseAll, RestoreTrashedItem, Delete,
\* Rename, Move and ListVersions): WithClient with no check before it.
TrashItem(t) ==
    /\ Begin(t, "TrashItem", "", "", TRUE)
    /\ UNCHANGED <<poolVars, clientVars, serverVars, held, stream, lastSet,
                   bearer, reloginFn, rq, lg, rl>>

\* api.TrashAdd: no bearer check; httpPOST("/trash-add", ...).
TrashAdd_Start(t) ==
    /\ pc[t] = "start"
    /\ fr[t].op = "TrashItem"
    /\ NewCall(t, 1, "POST", "trash", held[t])
    /\ pc' = [pc EXCEPT ![t] = "run"]
    /\ UNCHANGED <<calls, poolVars, clientVars, serverVars, fr, held, stream,
                   lastSet, bearer, reloginFn, lg, rl>>

TrashAdd_Done(t) ==
    /\ pc[t] = "run"
    /\ fr[t].op = "TrashItem"
    /\ rq[t][1].ph = "done"
    /\ fr' = [fr EXCEPT ![t].ret =
                IF WrapperError(rq[t][1].res) THEN "err" ELSE "ok"]
    /\ rq' = [rq EXCEPT ![t][1] = NoReq]
    /\ pc' = [pc EXCEPT ![t] = "rel"]
    /\ UNCHANGED <<calls, poolVars, clientVars, serverVars, held, stream,
                   lastSet, bearer, reloginFn, lg, rl>>

SessionStep(t) ==
    \/ LiveStep(t)
    \/ LoginWithBearerToken_Start(t)
    \/ LoginWithBearerToken_Done(t)
    \/ ClientLoginBearer_Finish(t)
    \/ TrashAdd_Start(t)
    \/ TrashAdd_Done(t)

SessionCall(t) ==
    \/ LiveCall(t)
    \/ \E tok \in {Tok(1), StaleToken} : ClientLoginBearer(t, tok)
    \/ TrashItem(t)
    \/ ListFolderTrash(t)

\* One caller uses the client; nobody else touches the session meanwhile.
SessionNext == SessionCall(1) \/ SessionStep(1)

SessionSpec == Init /\ [][SessionNext]_vars

\* An auth failure as withRetryOnAuthError sees it: status 401 or 403, or
\* a body with error code 1001.
AuthFailure(r) == ~r.err /\ (IsAuthStatus(r.status) \/ IsAuthError(r.body))

\* C11: LoginWithBearerToken(token), called with an empty bearer and a
\* token the Service accepts, sends /user-data carrying that token, returns
\* the user without error and leaves token as the session's bearer.
C11_BearerLoginStoresFirst ==
    \A t \in Callers :
        (pc[t] = "ret" /\ fr[t].op = "LoginBearer" /\ fr[t].fresh
         /\ fr[t].tok \in valid)
        => /\ fr[t].ret = "ok"
           /\ fr[t].u = "user"
           /\ fr[t].sent = fr[t].tok
           /\ poolBearer = fr[t].tok

\* C13: a facade operation other than a login does not get as far as
\* acquiring a sender while user is nil.
C13_GatedOnUser ==
    \A t \in Callers :
        (fr[t].op \in {"ListFolder", "TrashItem"}
         /\ (pc[t] = "acq" \/ fr[t].acquired))
        => user # "nil"

\* C17: when a request of a logged-in session got an auth failure, the
\* sender's bearer at the end of the call is empty if no credentials are
\* stored, and a token the Service accepts if credentials it accepts are.
C17_SessionAfterAuthFailure ==
    \A t \in Callers :
        LET f == rq[t][1]
        IN (fr[t].op \in {"ListFolder", "TrashItem"} /\ pc[t] = "run"
            /\ f.ph = "done" /\ AuthFailure(f.r1) /\ user # "nil")
           => IF email = "" \/ password = ""
              THEN bearer[held[t]] = NoToken
              ELSE Accepts(email, password) => bearer[held[t]] \in valid

\* ------------------------------------- a pool with a working re-login
\* A pool of MaxPool senders whose session holds the token Tok(1), which the
\* Service no longer accepts, and whose reloginFunc is one that, like
\* Client.relogin after a login that succeeded, obtains the next token and
\* installs it with pool.SetBearerToken.  The callers list folders.
PoolInit ==
    /\ poolSize = MaxPool
    /\ pool = [i \in 1..poolSize |-> i]
    /\ poolBearer = Tok(1)
    /\ poolRelogin = "custom"
    /\ bearer = [s \in AllSenders |-> IF s \in 1..poolSize THEN Tok(1)
                                      ELSE NoToken]
    /\ reloginFn = [s \in AllSenders |-> IF s \in 1..poolSize THEN "custom"
                                         ELSE "nil"]
    /\ user = "user"
    /\ email = ""
    /\ password = ""
    /\ valid = {}
    /\ issued = 1
    /\ pc = [t \in Threads |-> IF t \in Callers THEN "idle" ELSE "off"]
    /\ fr = [t \in Threads |-> NoOp]
    /\ held = [t \in Threads |-> 0]
    /\ rq = [t \in Threads |-> [L \in Levels |-> NoReq]]
    /\ lg = [t \in Threads |-> [L \in Levels |-> NoLogin]]
    /\ rl = [t \in Threads |-> NoRelogin]
    /\ stream = [c \in Callers |-> NoStream]
    /\ lastSet = NoToken
    /\ calls = 0

\* The pool's reloginFunc returns: with an error, or with success after the
\* Service has replaced the session's token and the new one went to
\* pool.SetBearerToken.
ReloginFunc_Pool(t, ok) ==
    /\ pc[t] # "direct"
    /\ rl[t].ph = "call"
    /\ rl[t].fn = "custom"
    /\ IF ok
       THEN /\ issued < MaxTok
            /\ issued' = issued + 1
            /\ valid' = {NextToken}
            /\ poolBearer' = NextToken
            /\ bearer' = PoolSetBearer(NextToken)
            /\ rl' = [rl EXCEPT ![t].ph = "ok", ![t].why = "ok"]
       ELSE /\ rl' = [rl EXCEPT ![t].ph = "fail", ![t].why = "failed"]
            /\ UNCHANGED <<serverVars, poolBearer, bearer>>
    /\ UNCHANGED <<calls, poolSize, pool, poolRelogin, clientVars,
                   facadeVars, reloginFn, rq, lg>>

PoolNext ==
    \E t \in Callers :
        \/ ListFolder(t)
        \/ Acquire(t)
        \/ GetCollection_Start(t)
        \/ Server_Respond(t, 1)
        \/ \E ok \in BOOLEAN : ReloginFunc_Pool(t, ok)
        \/ WithRetry_AfterRelogin(t, 1)
        \/ GetCollection_Done(t)
        \/ Release(t)
        \/ Return(t)

PoolSpec == PoolInit /\ [][PoolNext]_vars

\* ------------------------------------------- DecryptTwofishCBCStream
\* const blockSize = 16; the header is 2*blockSize bytes of ciphertext.
BlockSize == 16
HeaderSize == 2 * BlockSize

\* Every variable but stream.
notStream ==
    <<poolSize, pool, poolBearer, poolRelogin, bearer, reloginFn, user,
      email, password, valid, issued, pc, fr, held, rq, lg, rl, lastSet,
      calls>>

\* The decrypt task of an encrypted download, started by OpenDownloadStream
\* on a response of len ciphertext bytes whose decrypted header has
\* numPadding pad and version byte ver.  left: bytes the body has not
\* delivered yet; carry: len(carry); pend: the bytes of the dst.Write in
\* progress; eof: the read being processed came with io.EOF; wrote: bytes
\* written to dst; closes: how often the caller closed the stream.
DecStart(len, pad, ver) ==
    [kind |-> "decrypt", s |-> 0, closes |-> 0, len |-> len, pad |-> pad,
     ver |-> ver, left |-> len, task |-> "header", carry |-> 0, pend |-> 0,
     eof |-> FALSE, wrote |-> 0, err |-> "none"]

DecInit ==
    /\ poolSize = 0
    /\ pool = <<>>
    /\ poolBearer = NoToken
    /\ poolRelogin = "nil"
    /\ bearer = [s \in AllSenders |-> NoToken]
    /\ reloginFn = [s \in AllSenders |-> "nil"]
    /\ user = "nil"
    /\ email = ""
    /\ password = ""
    /\ valid = {}
    /\ issued = 0
    /\ pc = [t \in Threads |-> "off"]
    /\ fr = [t \in Threads |-> NoOp]
    /\ held = [t \in Threads |-> 0]
    /\ rq = [t \in Threads |-> [L \in Levels |-> NoReq]]
    /\ lg = [t \in Threads |-> [L \in Levels |-> NoLogin]]
    /\ rl = [t \in Threads |-> NoRelogin]
    /\ lastSet = NoToken
    /\ calls = 0
    /\ \E len \in 0..MaxCipher, pad \in 0..MaxPad, ver \in {0, 1} :
         stream = [c \in Callers |->
                     IF c = 1 THEN DecStart(len, pad, ver) ELSE NoStream]

DecFail(d, e) == [d EXCEPT !.task = "done", !.err = e]

\* What src.Read may return with left bytes to come: some of them and no
\* error, or all of them together with io.EOF (0, io.EOF at the end).
ReadResults(left) ==
    {<<n, FALSE>> : n \in 1..left} \cup {<<left, TRUE>>}

\* The end of an iteration of the read loop: io.EOF with a carry is
\* io.ErrUnexpectedEOF, with nothing written and a padding to strip it is
\* "unexpected empty body", otherwise nil; without io.EOF the loop goes on.
EndDropsCarry(eof, carry, wrote, pad) ==
    IF ~eof THEN "-"
    ELSE IF wrote = 0 /\ pad # 0 THEN "empty" ELSE "none"
EndOfIteration(eof, carry, wrote, pad) ==
    IF ~eof THEN "-"
    ELSE IF carry # 0 THEN "unexpectedEOF"
    ELSE IF wrote = 0 /\ pad # 0 THEN "empty" ELSE "none"

AfterIteration(d) ==
    LET e == EndOfIteration(d.eof, d.carry, d.wrote, d.pad)
    IN IF e = "-" THEN [d EXCEPT !.task = "read"] ELSE DecFail(d, e)

\* io.ReadFull(src, headerCipher), then the version byte.
Dec_Header ==
    /\ stream[1].kind = "decrypt"
    /\ stream[1].task = "header"
    /\ LET d == stream[1]
       IN stream' = [stream EXCEPT ![1] =
            IF d.closes >= 1 THEN DecFail(d, "closed")
            ELSE IF d.len < HeaderSize
                 THEN DecFail([d EXCEPT !.left = 0], "short")
            ELSE IF d.ver # 0
                 THEN DecFail([d EXCEPT !.left = @ - HeaderSize], "version")
            ELSE [d EXCEPT !.left = @ - HeaderSize, !.task = "read"]]
    /\ UNCHANGED notStream

\* n, rerr := src.Read(buf) and the processing of the n bytes: the whole
\* blocks of carry + buf[:n] are decrypted and written out, with the
\* padding stripped when this read came with io.EOF and left no carry.
Dec_Read ==
    /\ stream[1].kind = "decrypt"
    /\ stream[1].task = "read"
    /\ LET d == stream[1]
       IN IF d.closes >= 1
          THEN stream' = [stream EXCEPT ![1] = DecFail(d, "closed")]
          ELSE \E r \in ReadResults(d.left) :
                 LET n == r[1]
                     data == d.carry + n
                     toProcess == (data \div BlockSize) * BlockSize
                     rest == data - toProcess
                     final == r[2] /\ rest = 0
                     b == IF final THEN toProcess - d.pad ELSE toProcess
                     d1 == [d EXCEPT !.left = @ - n, !.carry = rest,
                                     !.eof = r[2]]
                 IN stream' = [stream EXCEPT ![1] =
                      IF toProcess = 0 THEN AfterIteration(d1)
                      ELSE IF final /\ d.pad > toProcess
                           THEN DecFail(d1, "padding")
                      ELSE IF b = 0 THEN AfterIteration(d1)
                      ELSE [d1 EXCEPT !.task = "write", !.pend = b]]
    /\ UNCHANGED notStream

\* The caller reads from the pipe: the dst.Write in progress returns and
\* the task goes on.
Pipe_Read ==
    /\ stream[1].kind = "decrypt"
    /\ stream[1].task = "write"
    /\ LET d == stream[1]
       IN stream' = [stream EXCEPT ![1] =
            AfterIteration([d EXCEPT !.wrote = @ + d.pend, !.pend = 0])]
    /\ UNCHANGED notStream

\* The caller closes the stream: the Closer is resp.Body, the pipe's read
\* end stays open.
Dec_Close ==
    /\ stream[1].kind = "decrypt"
    /\ stream[1].closes < MaxCloses
    /\ stream' = [stream EXCEPT ![1].closes = @ + 1]
    /\ UNCHANGED notStream

DecTask == Dec_Header \/ Dec_Read

DecNext == Dec_Header \/ Dec_Read \/ Pipe_Read \/ Dec_Close

\* The goroutine runs whenever it can; the caller reads and closes as it
\* likes.
DecryptSpec == DecInit /\ [][DecNext]_vars /\ WF_vars(DecTask)

\* The task has returned.
DecDone == stream[1].kind = "decrypt" /\ stream[1].task = "done"

\* A ciphertext in the framed format: a header with version 0, then a body
\* of whole blocks whose last block ends with numPadding < 16 zero bytes.
WellFormed(d) ==
    /\ d.len >= HeaderSize
    /\ (d.len - HeaderSize) % BlockSize = 0
    /\ d.ver = 0
    /\ d.pad < BlockSize
    /\ (d.len = HeaderSize => d.pad = 0)

ShortHeader(d) == d.len < HeaderSize
BadVersion(d) == d.len >= HeaderSize /\ d.ver # 0
PartialBlock(d) ==
    d.len >= HeaderSize /\ d.ver = 0 /\ (d.len - HeaderSize) % BlockSize # 0

\* C18: for a ciphertext in the framed format, however the source splits
\* it across reads and however it delivers the end of the stream, the
\* decryption returns without error having written exactly
\* cipherLen - 32 - numPadding bytes.
C18_StripsPadding ==
    LET d == stream[1]
    IN (DecDone /\ d.closes = 0 /\ WellFormed(d))
       => d.err = "none" /\ d.wrote = d.len - HeaderSize - d.pad

\* C19: the decryption returns an error and has written no byte when the
\* header is short, when the version byte is not zero, or when the body
\* ends with a partial block.
C19_ErrorAndNothingWritten ==
    LET d == stream[1]
    IN (DecDone /\ (ShortHeader(d) \/ BadVersion(d) \/ PartialBlock(d)))
       => d.err # "none" /\ d.wrote = 0

\* C19 as amended: an error and no byte written for a short header and for
\* a version byte that is not zero; for a body that ends with a partial
\* block an error, with only whole blocks written before it.
C19_ErrorOnBadInput ==
    LET d == stream[1]
    IN /\ (DecDone /\ (ShortHeader(d) \/ BadVersion(d)))
          => d.err # "none" /\ d.wrote = 0
       /\ (DecDone /\ PartialBlock(d))
          => /\ d.err # "none"
             /\ d.wrote % BlockSize = 0
             /\ d.wrote < d.len - HeaderSize
       /\ (DecDone /\ PartialBlock(d) /\ d.closes = 0)
          => /\ d.err = "unexpectedEOF"
             /\ d.wrote = ((d.len - HeaderSize) \div BlockSize) * BlockSize

C19_Witness ==
    LET d == stream[1]
    IN /\ DecDone
       /\ PartialBlock(d)
       /\ d.closes = 0
       /\ d.err = "unexpectedEOF"
       /\ d.wrote = BlockSize

\* C20: once the caller has closed an encrypted download stream, the
\* decrypt task eventually terminates.
C20_ClosedStreamEndsTask ==
    (stream[1].kind = "decrypt" /\ stream[1].closes >= 1)
        ~> (stream[1].task = "done")
\* ------------------------------------------------ streaming upload
\* The errors Write and Close of the writer NewUploadFileWriter returns can
\* give back before the writer is closed: the writer is the *io.PipeWriter
\* partW, nobody closes partR, and the result of h.httpPOSTReader is
\* assigned to blanks, so only nil.  pooledWriter passes them on as they are.
UploadWriterErrors == {"nil"}

\* C21: a streaming upload whose request has failed is signalled to the
\* caller: when Close has returned and the goroutine's httpPOSTReader has
\* come back with a transport error, a status >= 400 or a service error
\* body, a Write or Close has returned an error that is not nil.
C21_UploadFailureSignalled ==
    \A c \in Callers :
        ( /\ stream[c].kind = "writer"
          /\ stream[c].closes >= 1
          /\ pc[c] = "idle"
          /\ pc[Bg(c)] = "post"
          /\ rq[Bg(c)][1].ph = "done"
          /\ WrapperError(rq[Bg(c)][1].res) )
        => UploadWriterErrors # {"nil"}

\* ------------------------------------------------- filename encryption
\* Strings and byte slices are sequences of byte values (0..255); a hex
\* key is <<kind, k>>: "ok32" decodes to 32 bytes, "ok16" to 16 bytes,
\* "nonhex" does not decode, and k tells the keys apart.

\* The ^ of two bytes.
RECURSIVE Xor(_, _)
Xor(a, b) ==
    IF a = 0 THEN b
    ELSE IF b = 0 THEN a
    ELSE ((a + b) % 2) + 2 * Xor(a \div 2, b \div 2)

\* c.Encrypt / c.Decrypt of the imported Twofish cipher on one block: a
\* keyed permutation of the 16-byte blocks, here a keyed shift of every
\* byte, with Decrypt its inverse.
TwofishOneWay(k, b, enc) == [j \in 1..BlockSize |-> (b[j] + k + j) % 256]
Twofish(k, b, enc) ==
    [j \in 1..BlockSize |->
        IF enc THEN (b[j] + k + j) % 256 ELSE (b[j] + 512 - k - j) % 256]

\* The value of a hex digit, -1 for any other byte.
Unhex(c) ==
    IF c \in 48..57 THEN c - 48
    ELSE IF c \in 97..102 THEN c - 87
    ELSE IF c \in 65..70 THEN c - 55
    ELSE -1

\* url.QueryEscape: letters, digits and - _ . ~ stay, a space becomes '+',
\* every other byte becomes %XX with upper-case hex digits.
RECURSIVE QueryEscape(_)
QueryEscape(s) ==
    IF s = <<>> THEN <<>>
    ELSE LET c == Head(s)
             up(n) == IF n < 10 THEN 48 + n ELSE 55 + n
             e == IF \/ c \in 48..57 \/ c \in 65..90 \/ c \in 97..122
                     \/ c \in {45, 95, 46, 126}
                  THEN <<c>>
                  ELSE IF c = 32 THEN <<43>>
                  ELSE <<37, up(c \div 16), up(c % 16)>>
         IN e \o QueryEscape(Tail(s))

\* url.QueryUnescape: '+' becomes a space and %XX the byte XX; a '%' not
\* followed by two hex digits is an error.
RECURSIVE QueryUnescape(_)
QueryUnescape(s) ==
    IF s = <<>> THEN [err |-> FALSE, s |-> <<>>]
    ELSE IF Head(s) = 37
    THEN IF Len(s) < 3 \/ Unhex(s[2]) < 0 \/ Unhex(s[3]) < 0
         THEN [err |-> TRUE, s |-> <<>>]
         ELSE LET r == QueryUnescape(SubSeq(s, 4, Len(s)))
              IN [r EXCEPT !.s = <<16 * Unhex(s[2]) + Unhex(s[3])>> \o @]
    ELSE LET r == QueryUnescape(Tail(s))
         IN [r EXCEPT !.s = <<IF Head(s) = 43 THEN 32 ELSE Head(s)>> \o @]

\* EncryptFilename(keyHex, filename): escape, pad with zeros to a multiple
\* of the block size (nothing when it is one already), CBC-encrypt under
\* the fixed IV, hex-encode in lower case.
EncryptFilename(keyHex, filename) ==
    IF keyHex[1] # "ok32" THEN [err |-> TRUE, hex |-> <<>>]
    ELSE LET escaped == QueryEscape(filename)
             padLen0 == BlockSize - (Len(escaped) % BlockSize)
             padLen == IF padLen0 = BlockSize THEN 0 ELSE padLen0
             plain == escaped \o [i \in 1..padLen |-> 0]
             iv == <<49, 50, 51, 52, 53, 54, 55, 56, 56, 55, 54, 53, 52, 51,
                     50, 49>>
             RECURSIVE cbc(_, _)
             cbc(p, prev) ==
                 IF p = <<>> THEN <<>>
                 ELSE LET block == [j \in 1..BlockSize |-> Xor(p[j], prev[j])]
                          ct == Twofish(keyHex[2], block, TRUE)
                      IN ct \o cbc(SubSeq(p, BlockSize + 1, Len(p)), ct)
             lo(n) == IF n < 10 THEN 48 + n ELSE 87 + n
             RECURSIVE hex(_)
             hex(b) ==
                 IF b = <<>> THEN <<>>
                 ELSE <<lo(Head(b) \div 16), lo(Head(b) % 16)>> \o hex(Tail(b))
         IN [err |-> FALSE, hex |-> hex(cbc(plain, iv))]

\* DecryptFilename(keyHex, cipherHex): hex-decode, CBC-decrypt under the
\* fixed IV, strip the trailing zeros, unescape; when the unescaping fails
\* the trimmed bytes are returned as they are.
DecryptFilename(keyHex, cipherHex) ==
    LET RECURSIVE unhex(_)
        unhex(h) ==
            IF h = <<>> THEN <<>>
            ELSE <<16 * Unhex(h[1]) + Unhex(h[2])>>
                     \o unhex(SubSeq(h, 3, Len(h)))
        hexOK == Len(cipherHex) % 2 = 0
                   /\ \A i \in 1..Len(cipherHex) : Unhex(cipherHex[i]) >= 0
        ct == unhex(cipherHex)
        iv == <<49, 50, 51, 52, 53, 54, 55, 56, 56, 55, 54, 53, 52, 51, 50,
                49>>
        RECURSIVE cbc(_, _)
        cbc(c, prev) ==
            IF c = <<>> THEN <<>>
            ELSE LET cur == SubSeq(c, 1, BlockSize)
                     block == Twofish(keyHex[2], cur, FALSE)
                 IN [j \in 1..BlockSize |-> Xor(block[j], prev[j])]
                        \o cbc(SubSeq(c, BlockSize + 1, Len(c)), cur)
        RECURSIVE strip(_)
        strip(p) ==
            IF p # <<>> /\ p[Len(p)] = 0
            THEN strip(SubSeq(p, 1, Len(p) - 1)) ELSE p
    IN IF keyHex[1] # "ok32" \/ ~hexOK THEN [err |-> TRUE, name |-> <<>>]
       ELSE IF Len(ct) % BlockSize # 0 THEN [err |-> TRUE, name |-> <<>>]
       ELSE LET trimmed == strip(cbc(ct, iv))
                decoded == QueryUnescape(trimmed)
            IN [err |-> FALSE,
                name |-> IF decoded.err THEN trimmed ELSE decoded.s]

\* The loop of GetCollection over the entries of a crypto collection: an
\* entry's filename is replaced by its decryption when DecryptFilename
\* returns no error and left alone otherwise.
GetCollection_KeepsNothing(keyHex, data) ==
    [i \in DOMAIN data |-> DecryptFilename(keyHex, data[i]).name]
GetCollection_Decrypt(keyHex, data) ==
    [i \in DOMAIN data |->
        LET r == DecryptFilename(keyHex, data[i])
        IN IF r.err THEN data[i] ELSE r.name]

\* The filenames the functions are applied to: a run of 'a' followed by a
\* few bytes out of 'a', ' ', '+', '%', '!' and the zero byte.
Names ==
    LET RECURSIVE tails(_)
        tails(n) ==
            IF n = 0 THEN {<<>>}
            ELSE tails(n - 1) \cup
                   {Append(t, c) : t \in tails(n - 1),
                                   c \in {97, 32, 43, 37, 33, 0}}
    IN {[i \in 1..k |-> 97] \o t : k \in 0..MaxRun, t \in tails(MaxTail)}

\* ------------------------------------------------------ proof of work
\* sha256 is not computed: a hash function is given as the digests it has
\* for the inputs the search goes through, a digest being DigestBytes bytes.

\* countLeadingZeroBits(data): 8 for every leading zero byte, then the zero
\* bits of the first other byte from bit 7 down to its first 1 bit.
countAllBits(data) == 8 * Len(data)
RECURSIVE countLeadingZeroBits(_)
countLeadingZeroBits(data) ==
    IF data = <<>> THEN 0
    ELSE IF Head(data) = 0 THEN 8 + countLeadingZeroBits(Tail(data))
    ELSE LET RECURSIVE zeros(_)
             zeros(bit) ==
                 IF (Head(data) \div (2 ^ bit)) % 2 = 0
                 THEN 1 + zeros(bit - 1) ELSE 0
         IN zeros(7)

\* SolvePOWChallenge on a challenge with difficulty bits whose text decodes
\* (ok) or not, with the 12 bytes R that rand.Read gave (<<>>: it failed)
\* and the digest sha[counter] of challenge, R and counter.  The counter is
\* an unsigned integer of CounterBits bits.  hashed counts the digests
\* computed.
SolvePOWChallenge(challenge, R, sha) ==
    LET fail(e, n) == [err |-> e, nonce |-> <<>>, hash |-> <<>>, hashed |-> n]
        be(c) == <<(c \div 16777216) % 256, (c \div 65536) % 256,
                   (c \div 256) % 256, c % 256>>
        ch(v) == IF v < 26 THEN 65 + v
                 ELSE IF v < 52 THEN 71 + v
                 ELSE IF v < 62 THEN v - 4
                 ELSE IF v = 62 THEN 45 ELSE 95
        RECURSIVE b64(_)
        b64(b) ==
            IF b = <<>> THEN <<>>
            ELSE IF Len(b) = 1
            THEN <<ch(b[1] \div 4), ch((b[1] % 4) * 16)>>
            ELSE IF Len(b) = 2
            THEN <<ch(b[1] \div 4), ch((b[1] % 4) * 16 + b[2] \div 16),
                   ch((b[2] % 16) * 4)>>
            ELSE <<ch(b[1] \div 4), ch((b[1] % 4) * 16 + b[2] \div 16),
                   ch((b[2] % 16) * 4 + b[3] \div 64), ch(b[3] % 64)>>
                     \o b64(SubSeq(b, 4, Len(b)))
        lo(n) == IF n < 10 THEN 48 + n ELSE 87 + n
        RECURSIVE hex(_)
        hex(b) ==
            IF b = <<>> THEN <<>>
            ELSE <<lo(Head(b) \div 16), lo(Head(b) % 16)>> \o hex(Tail(b))
        RECURSIVE loop(_)
        loop(counter) ==
            IF countLeadingZeroBits(sha[counter]) >= challenge.bits
            THEN [err |-> "nil", nonce |-> b64(R \o be(counter)),
                  hash |-> hex(sha[counter]), hashed |-> counter + 1]
            ELSE IF (counter + 1) % (2 ^ CounterBits) = 0
                 THEN fail("counter overflow", counter + 1)
                 ELSE loop(counter + 1)
    IN IF challenge.bits <= 0 \/ challenge.bits > 256
       THEN fail("invalid difficulty", 0)
       ELSE IF ~challenge.ok THEN fail("decode", 0)
       ELSE IF R = <<>> THEN fail("random", 0)
       ELSE loop(0)

\* expires of the legacy payload: the server time in milliseconds plus a
\* minute.
ExpiresInSeconds(serverTimeSec) == serverTimeSec + 60
Expires(serverTimeSec) == (serverTimeSec * 1000) + 60000

\* ComputeProofOfWork with the digest sha[nonce] of "proof-of-work" and the
\* decimal nonce: the first nonce, from 0 up, whose hex digest starts with
\* difficulty = 4 zeros; the payload is signed with the key (a key that is
\* no hex is an error) and wrapped.
ComputeProofOfWork(serverTimeSec, hmacKeyHex, sha) ==
    LET lo(n) == IF n < 10 THEN 48 + n ELSE 87 + n
        RECURSIVE hex(_)
        hex(b) ==
            IF b = <<>> THEN <<>>
            ELSE <<lo(Head(b) \div 16), lo(Head(b) % 16)>> \o hex(Tail(b))
        difficulty == 4
        prefix == [i \in 1..difficulty |-> 48]
        RECURSIVE search(_)
        search(nonce) ==
            IF SubSeq(hex(sha[nonce]), 1, Len(prefix)) = prefix
            THEN nonce ELSE search(nonce + 1)
        nonce == search(0)
        payload == [challenge |-> "proof-of-work", nonce |-> nonce,
                    hash |-> hex(sha[nonce]), difficulty |-> difficulty,
                    expires |-> Expires(serverTimeSec)]
    IN IF hmacKeyHex[1] = "nonhex"
       THEN [err |-> TRUE, payload |-> payload, signature |-> <<>>]
       ELSE [err |-> FALSE, payload |-> payload,
             signature |-> <<"hmac", hmacKeyHex, payload>>]

\* ------------------------------------------------ the upload's two pipes
\* The writer NewUploadFileWriter or NewUploadFileEncryptedWriter (enc) has
\* returned, on its own: the caller writes to partW; the copying goroutine
\* writes the form fields and the part header to pw, then moves what it
\* reads from partR to pw; the transport of the POST reads pr and closes it
\* when the request ends.  copy: where the copying goroutine is; req: the
\* request; w: the caller's Write; res: what the Writes returned; closes:
\* the caller has closed partW.
UploadPipeInit ==
    /\ poolSize = 0
    /\ pool = <<>>
    /\ poolBearer = NoToken
    /\ poolRelogin = "nil"
    /\ bearer = [s \in AllSenders |-> NoToken]
    /\ reloginFn = [s \in AllSenders |-> "nil"]
    /\ user = "nil"
    /\ email = ""
    /\ password = ""
    /\ valid = {}
    /\ issued = 0
    /\ pc = [t \in Threads |-> "off"]
    /\ fr = [t \in Threads |-> NoOp]
    /\ held = [t \in Threads |-> 0]
    /\ rq = [t \in Threads |-> [L \in Levels |-> NoReq]]
    /\ lg = [t \in Threads |-> [L \in Levels |-> NoLogin]]
    /\ rl = [t \in Threads |-> NoRelogin]
    /\ lastSet = NoToken
    /\ calls = 0
    /\ \E enc \in BOOLEAN :
         stream = [c \in Callers |->
                     IF c = 1
                     THEN [kind |-> "upload", s |-> 0, closes |-> 0,
                           enc |-> enc, copy |-> "fields", req |-> "run",
                           w |-> "idle", res |-> <<>>]
                     ELSE NoStream]

\* The copying goroutine.  A write to pw is taken by the transport, or
\* fails once pr is closed, and then the goroutine closes mp and pw and
\* exits; a read of partR takes the bytes of the caller's Write, which
\* returns nil, or gets io.EOF once partW is closed.  partR is never closed.
UploadCopy ==
    LET u == stream[1]
    IN /\ u.kind = "upload"
       /\ \/ /\ u.copy \in {"fields", "part"}
             /\ stream' = [stream EXCEPT ![1].copy =
                             IF u.req = "run" THEN "read" ELSE "exit"]
          \/ /\ u.copy = "read"
             /\ u.w = "pending"
             /\ stream' = [stream EXCEPT ![1].copy = "part",
                                         ![1].w = "idle",
                                         ![1].res = Append(@, "nil")]
          \/ /\ u.copy = "read"
             /\ u.w = "idle"
             /\ u.closes >= 1
             /\ stream' = [stream EXCEPT ![1].copy = "exit"]
       /\ UNCHANGED notStream

\* The caller writes (Write blocks until partR is read) or closes the
\* writer; the request ends: it fails, or the server answers.
UploadPipeNext ==
    \/ UploadCopy
    \/ /\ stream[1].kind = "upload"
       /\ stream[1].w = "idle"
       /\ stream[1].closes = 0
       /\ Len(stream[1].res) < MaxWrites
       /\ stream' = [stream EXCEPT ![1].w = "pending"]
       /\ UNCHANGED notStream
    \/ /\ stream[1].kind = "upload"
       /\ stream[1].w = "idle"
       /\ stream[1].closes = 0
       /\ stream' = [stream EXCEPT ![1].closes = 1]
       /\ UNCHANGED notStream
    \/ /\ stream[1].kind = "upload"
       /\ stream[1].req = "run"
       /\ stream' = [stream EXCEPT ![1].req = "ended"]
       /\ UNCHANGED notStream

\* The copying goroutine runs whenever it can.
UploadPipeSpec ==
    UploadPipeInit /\ [][UploadPipeNext]_vars /\ WF_vars(UploadCopy)

\* ------------------------------------------------------ the CBC chunks
\* const chunkSize: 4 MiB in the code, ChunkBlocks blocks here.
ChunkSize == ChunkBlocks * BlockSize

\* After a run of blocks the decrypter is re-seeded from contentIV when the
\* chunk is used up and more data may follow.
ReseedEarly(chunkRemaining, lastRead) ==
    chunkRemaining <= BlockSize /\ ~lastRead
Reseed(chunkRemaining, lastRead) == chunkRemaining = 0 /\ ~lastRead

\* DecryptTwofishCBCStream after the header, on a body of len bytes that
\* src delivers in reads of the given sizes (what is left after them comes
\* in one read), io.EOF coming with the last bytes (eofWithData) or in a
\* read of its own.  chain[p] is the cipher block that body block p was
\* chained from, 0 being contentIV; wrote counts the bytes written to dst.
DecryptTwofishCBCStream(len, numPadding, reads, eofWithData) ==
    LET min(a, b) == IF a < b THEN a ELSE b
        RECURSIVE blocks(_, _, _)
        blocks(st, data, isEOF) ==
            LET toProcess == (min(data, st.cr) \div BlockSize) * BlockSize
                k == toProcess \div BlockSize
                rest == data - toProcess
                cr == st.cr - toProcess
                lastRead == isEOF /\ rest = 0
                out == toProcess - (IF lastRead THEN numPadding ELSE 0)
                chained == [st EXCEPT
                              !.chain = @ \o [j \in 1..k |->
                                               IF j = 1 /\ st.fresh THEN 0
                                               ELSE st.pos + j - 1],
                              !.pos = @ + k]
            IN IF data < BlockSize \/ toProcess = 0
               THEN [st EXCEPT !.carry = data]
               ELSE IF lastRead /\ numPadding > toProcess
               THEN [chained EXCEPT !.err = "invalid padding"]
               ELSE blocks([chained EXCEPT
                              !.wrote = @ + out,
                              !.wroteAny = @ \/ out > 0,
                              !.fresh = Reseed(cr, lastRead),
                              !.cr = IF Reseed(cr, lastRead) THEN ChunkSize
                                     ELSE cr],
                           rest, isEOF)
        atEOF(st) ==
            IF st.carry # 0 THEN [st EXCEPT !.err = "unexpected EOF"]
            ELSE IF ~st.wroteAny /\ numPadding # 0
            THEN [st EXCEPT !.err = "unexpected empty body"]
            ELSE st
        RECURSIVE loop(_, _, _)
        loop(st, left, rs) ==
            IF left = 0 THEN atEOF(st)
            ELSE LET n == IF rs = <<>> THEN left ELSE min(Head(rs), left)
                     isEOF == eofWithData /\ n = left
                     st2 == blocks(st, st.carry + n, isEOF)
                 IN IF st2.err # "nil" THEN st2
                    ELSE IF isEOF THEN atEOF(st2)
                    ELSE loop(st2, left - n,
                              IF rs = <<>> THEN rs ELSE Tail(rs))
        end == loop([cr |-> ChunkSize - HeaderSize, carry |-> 0, pos |-> 0,
                     fresh |-> TRUE, chain |-> <<>>, wrote |-> 0,
                     wroteAny |-> FALSE, err |-> "nil"], len, reads)
    IN [err |-> end.err, chain |-> end.chain, wrote |-> end.wrote]

\* ------------------------------------------------------------ plain size
\* GetPlainSize on a sender with bearer token and crypto key keyHex: urlsErr
\* tells whether GetDownloadURLs failed, head and range are the answers to
\* the HEAD request and to the GET of bytes 0-31 ([err, status, cl] with cl
\* the text of Content-Length, and [err, status, body]).
GetPlainSize(token, keyHex, crypted, urlsErr, head, range) ==
    LET fail(e) == [err |-> e, n |-> 0]
        RECURSIVE digits(_)
        digits(t) ==
            IF t # <<>> /\ Head(t) \in 48..57
            THEN <<Head(t) - 48>> \o digits(Tail(t)) ELSE <<>>
        RECURSIVE value(_)
        value(d) ==
            IF d = <<>> THEN 0 ELSE 10 * value(SubSeq(d, 1, Len(d) - 1))
                                      + d[Len(d)]
        total == value(digits(head.cl))
        iv == <<49, 50, 51, 52, 53, 54, 55, 56, 56, 55, 54, 53, 52, 51, 50,
                49>>
        RECURSIVE cbc(_, _)
        cbc(c, prev) ==
            IF c = <<>> THEN <<>>
            ELSE LET cur == SubSeq(c, 1, BlockSize)
                     block == Twofish(keyHex[2], cur, FALSE)
                 IN [j \in 1..BlockSize |-> Xor(block[j], prev[j])]
                        \o cbc(SubSeq(c, BlockSize + 1, Len(c)), cur)
        headerPlain == cbc(SubSeq(range.body, 1, HeaderSize), iv)
        numPadding == headerPlain[BlockSize + 1]
        plain == (total - HeaderSize) - numPadding
    IN IF token = NoToken THEN fail("missing bearer token")
       ELSE IF urlsErr THEN fail("download urls")
       ELSE IF head.err THEN fail("transport")
       ELSE IF head.status < 200 \/ head.status >= 300 THEN fail("HEAD failed")
       ELSE IF head.cl = <<>> THEN fail("missing Content-Length")
       ELSE IF digits(head.cl) = <<>> THEN fail("expected integer")
       ELSE IF ~crypted THEN [err |-> "nil", n |-> total]
       ELSE IF range.err THEN fail("transport")
       ELSE IF range.status # 206 /\ range.status # 200
            THEN fail("range GET failed")
       ELSE IF Len(range.body) < HeaderSize THEN fail("short header")
       ELSE IF keyHex[1] = "nonhex" THEN fail("hex")
       ELSE IF plain < 0 THEN fail("calculated negative size")
       ELSE [err |-> "nil", n |-> plain]

\* ------------------------------------------------------ crypto password
\* Client.SetCryptoPassword on the client c (its cryptoPassword, CryptoSalt
\* and CryptoHexKey, the pool's crypto key, and fetches, the number of
\* /crypto-auth fetches made so far), fetch being what
\* FetchCryptoSaltAndStoredHash returns when it is called.  A derived key
\* is <<"pbkdf2", password, salt>>; "" is the empty string.
SetCryptoPassword(c, cryptoPassword, fetch) ==
    LET DeriveCryptoKey(pw, salt) == <<"pbkdf2", pw, salt>>
        salt == IF c.CryptoSalt = ""
                THEN (IF fetch.err THEN "" ELSE fetch.salt)
                ELSE c.CryptoSalt
        key == DeriveCryptoKey(cryptoPassword, salt)
    IN [cryptoPassword |-> cryptoPassword,
        CryptoSalt |-> salt,
        CryptoHexKey |-> key,
        poolKey |-> key,
        fetches |-> IF c.CryptoSalt = "" THEN c.fetches + 1 ELSE c.fetches]

\* ------------------------------------------------ request URL and headers
\* The URL a request for target u is sent to.  A URL is a sequence of
\* pieces: "/" starts a path, "https://" is a scheme.  httpGET and httpPOST
\* put apiBase in front of u, httpPOSTReader only when u starts with "/".
RequestURL(kind, apiBase, u) ==
    IF kind = "POSTReader"
    THEN IF u # <<>> /\ Head(u) = "/" THEN apiBase \o u ELSE u
    ELSE apiBase \o u

\* parseEnvHeaders on a headers string given as its items, each a name as
\* it is written and a value text with blanks and a ';' around it: an item
\* whose lower-cased name is on the whitelist yields the whitelist's
\* spelling and the trimmed value; any other item is not seen as a header,
\* so it is dropped at the start and is part of the value before it
\* elsewhere.
RECURSIVE parseEnvHeaders(_)
parseEnvHeaders(hstr) ==
    LET canon(n) == CASE n \in {"authorization", "Authorization"}
                            -> "Authorization"
                      [] n \in {"user-agent", "User-Agent"} -> "User-Agent"
                      [] OTHER -> "-"
    IN IF hstr = <<>> THEN <<>>
       ELSE LET it == hstr[Len(hstr)]
                before == parseEnvHeaders(SubSeq(hstr, 1, Len(hstr) - 1))
            IN IF canon(it.name) # "-"
               THEN Append(before, <<canon(it.name), <<it.text>>>>)
               ELSE IF before = <<>> THEN <<>>
               ELSE [before EXCEPT ![Len(before)][2] = @ \o <<it.name, it.text>>]

\* addHeaders: the header of a request of a sender with this headers string
\* and bearer token, as a function from names to values.
addHeadersBearerFirst(headers, token) ==
    LET RECURSIVE set(_, _)
        set(kvs, hdr) ==
            IF kvs = <<>> THEN hdr
            ELSE set(Tail(kvs), (Head(kvs)[1] :> Head(kvs)[2]) @@ hdr)
    IN set(parseEnvHeaders(headers),
           IF token # NoToken
           THEN ("Authorization" :> <<"Bearer", token>>) ELSE <<>>)
addHeaders(headers, token) ==
    LET RECURSIVE set(_, _)
        set(kvs, hdr) ==
            IF kvs = <<>> THEN hdr
            ELSE set(Tail(kvs),
                     IF Head(kvs)[1] = "Authorization" /\ token # NoToken
                     THEN hdr ELSE (Head(kvs)[1] :> Head(kvs)[2]) @@ hdr)
        parsed == set(parseEnvHeaders(headers), <<>>)
        withBearer == IF token # NoToken
                      THEN ("Authorization" :> <<"Bearer", token>>) @@ parsed
                      ELSE parsed
        default(hdr, k, v) ==
            IF k \in DOMAIN hdr /\ hdr[k] # <<"">> THEN hdr
            ELSE (k :> <<v>>) @@ hdr
    IN default(default(default(withBearer, "User-Agent", "Mozilla/5.0"),
                       "Accept", "*/*"),
               "Accept-Language", "en-US,en;q=0.5")

\* ------------------------------------------- the functions on their own
\* stream[1] holds one application of a function of the api package: the
\* function, its arguments and what it returned ("-": none applied yet).
FnInit ==
    /\ poolSize = 0
    /\ pool = <<>>
    /\ poolBearer = NoToken
    /\ poolRelogin = "nil"
    /\ bearer = [s \in AllSenders |-> NoToken]
    /\ reloginFn = [s \in AllSenders |-> "nil"]
    /\ user = "nil"
    /\ email = ""
    /\ password = ""
    /\ valid = {}
    /\ issued = 0
    /\ pc = [t \in Threads |-> "off"]
    /\ fr = [t \in Threads |-> NoOp]
    /\ held = [t \in Threads |-> 0]
    /\ rq = [t \in Threads |-> [L \in Levels |-> NoReq]]
    /\ lg = [t \in Threads |-> [L \in Levels |-> NoLogin]]
    /\ rl = [t \in Threads |-> NoRelogin]
    /\ lastSet = NoToken
    /\ calls = 0
    /\ stream = [c \in Callers |->
                   IF c = 1
                   THEN [kind |-> "fn", s |-> 0, closes |-> 0, fn |-> "-",
                         arg |-> <<>>, out |-> <<>>]
                   ELSE NoStream]

\* The function fn is applied to arg and returns out.
Apply(fn, arg, out) ==
    /\ stream[1].kind = "fn"
    /\ stream' = [stream EXCEPT ![1] =
                    [@ EXCEPT !.fn = fn, !.arg = arg, !.out = out]]
    /\ UNCHANGED notStream

\* The hex keys are two keys of 32 bytes, one of 16 bytes and one that is
\* no hex; a ciphertext is taken as it is ("same") or damaged: a hex digit
\* short ("odd"), a byte short ("short"), with a byte that is no hex digit
\* ("nonhex").  The functions applied: EncryptFilename on any key and
\* name; DecryptFilename, under any key, on a ciphertext EncryptFilename
\* has produced; the decryption loop of GetCollection on a listing of two
\* entries encrypted under the first key; SolvePOWChallenge and
\* ComputeProofOfWork under any hash function; the URL of a request for a
\* relative or absolute target; addHeaders on a headers string of up to
\* MaxHeaders items; countLeadingZeroBits on up to MaxBytes bytes;
\* GetPlainSize on an item whose header was encrypted under the key from,
\* with the Content-Length total (-1: none) and the first size bytes of the
\* file as the answer to the range request; SetCryptoPassword up to MaxSets
\* times in a row on a new client; DecryptTwofishCBCStream on bodies of up
\* to two chunks and a block, the first MaxReads reads of 1, 16, 17, 33 or
\* 200 bytes.
FnNext ==
    \/ /\ stream[1].fn = "-"
       /\ \E k \in {<<"ok32", 1>>, <<"ok32", 2>>, <<"ok16", 1>>,
                    <<"nonhex", 0>>}, n \in Names :
            Apply("EncryptFilename", [key |-> k, name |-> n],
                  EncryptFilename(k, n))
    \/ /\ stream[1].fn = "EncryptFilename"
       /\ ~stream[1].out.err
       /\ LET a == stream[1].arg
              h == stream[1].out.hex
          IN \E k \in {<<"ok32", 1>>, <<"ok32", 2>>, <<"ok16", 1>>,
                       <<"nonhex", 0>>},
                how \in {"same", "odd", "short", "nonhex"} :
               LET c == CASE how = "same" -> h
                          [] how = "odd" -> SubSeq(h, 1, Len(h) - 1)
                          [] how = "short" -> SubSeq(h, 1, Len(h) - 2)
                          [] how = "nonhex" -> <<103>> \o h
               IN Apply("DecryptFilename",
                        [key |-> k, hex |-> c, name |-> a.name,
                         from |-> a.key, how |-> how],
                        DecryptFilename(k, c))
    \/ /\ stream[1].fn = "-"
       /\ LET enc(n) == EncryptFilename(<<"ok32", 1>>, n).hex
              entries ==
                {[name |-> n, how |-> "same", hex |-> enc(n)] :
                     n \in {<<>>, <<97, 32>>,
                            [i \in 1..BlockSize |-> 97] \o <<43>>}}
                  \cup {[name |-> <<97, 32>>, how |-> "odd",
                         hex |-> SubSeq(enc(<<97, 32>>), 1, 31)],
                        [name |-> <<97, 32>>, how |-> "short",
                         hex |-> SubSeq(enc(<<97, 32>>), 1, 30)],
                        [name |-> <<97, 32>>, how |-> "nonhex",
                         hex |-> <<103>> \o enc(<<97, 32>>)]}
          IN \E k \in {<<"ok32", 1>>, <<"ok32", 2>>, <<"ok16", 1>>,
                       <<"nonhex", 0>>}, e1 \in entries, e2 \in entries :
               Apply("GetCollection", [key |-> k, data |-> <<e1, e2>>],
                     GetCollection_Decrypt(k, <<e1.hex, e2.hex>>))
    \/ /\ stream[1].fn = "-"
       /\ LET z == [i \in 1..DigestBytes |-> 0]
              digests == {z, [z EXCEPT ![DigestBytes] = 64],
                          [z EXCEPT ![1] = 1], [z EXCEPT ![1] = 128]}
          IN \E ok \in BOOLEAN,
                bits \in {0, 1, 8, 9, 10, 8 * DigestBytes + 1, 256, 257},
                R \in {<<>>, [i \in 1..12 |-> 7], [i \in 1..12 |-> 20 * i]},
                sha \in [0..(2 ^ CounterBits - 1) -> digests] :
               Apply("SolvePOWChallenge",
                     [ok |-> ok, bits |-> bits, R |-> R, sha |-> sha],
                     SolvePOWChallenge([ok |-> ok, bits |-> bits], R, sha))
    \/ /\ stream[1].fn = "-"
       /\ LET z == [i \in 1..DigestBytes |-> 0]
              digests == {z, [z EXCEPT ![DigestBytes] = 64],
                          [z EXCEPT ![1] = 1], [z EXCEPT ![1] = 128]}
          IN \E t \in {0, 1, 1700000},
                k \in {<<"ok32", 1>>, <<"nonhex", 0>>},
                sha \in [0..MaxNonce -> digests] :
               /\ \E n \in 0..MaxNonce : sha[n][1] = 0 /\ sha[n][2] = 0
               /\ Apply("ComputeProofOfWork",
                        [serverTimeSec |-> t, key |-> k, sha |-> sha],
                        ComputeProofOfWork(t, k, sha))
    \/ /\ stream[1].fn = "-"
       /\ \E kind \in {"GET", "POST", "POSTReader"},
             apiBase \in {<<>>, <<"https://", "apis.icedrive.net/v3/webapp">>},
             u \in {<<"/", "current-server-time">>, <<"collection">>,
                    <<"https://", "apis.icedrive.net/v3/webapp", "/",
                      "user-data">>} :
            Apply("RequestURL", [kind |-> kind, apiBase |-> apiBase, u |-> u],
                  RequestURL(kind, apiBase, u))
    \/ /\ stream[1].fn = "-"
       /\ LET items == [name : {"authorization", "Authorization",
                                "User-Agent", "X-Custom"},
                        text : {"", "Basic x"}]
              RECURSIVE strings(_)
              strings(n) ==
                  IF n = 0 THEN {<<>>}
                  ELSE strings(n - 1) \cup
                         {Append(h, it) : h \in strings(n - 1), it \in items}
          IN \E headers \in strings(MaxHeaders), b \in {NoToken, Tok(1)} :
               Apply("addHeaders", [headers |-> headers, bearer |-> b],
                     addHeaders(headers, b))
    \/ /\ stream[1].fn = "-"
       /\ LET RECURSIVE slices(_)
              slices(n) ==
                  IF n = 0 THEN {<<>>}
                  ELSE slices(n - 1) \cup
                         {Append(d, b) :
                            d \in slices(n - 1),
                            b \in {0, 1, 2, 3, 4, 8, 16, 32, 64, 127, 128, 255}}
          IN \E data \in slices(MaxBytes) :
               Apply("countLeadingZeroBits", data, countLeadingZeroBits(data))
    \/ /\ stream[1].fn = "-"
       /\ LET from == <<"ok32", 1>>
              iv == <<49, 50, 51, 52, 53, 54, 55, 56, 56, 55, 54, 53, 52, 51,
                      50, 49>>
              RECURSIVE cbc(_, _)
              cbc(p, prev) ==
                  IF p = <<>> THEN <<>>
                  ELSE LET block == [j \in 1..BlockSize |-> Xor(p[j], prev[j])]
                           ct == Twofish(from[2], block, TRUE)
                       IN ct \o cbc(SubSeq(p, BlockSize + 1, Len(p)), ct)
              header(numPadding) ==
                  cbc([j \in 1..HeaderSize |->
                         IF j <= BlockSize THEN 16 * j
                         ELSE IF j = BlockSize + 1 THEN numPadding
                         ELSE IF j = BlockSize + 2 THEN 1 ELSE 0], iv)
              RECURSIVE decimal(_)
              decimal(n) ==
                  IF n < 10 THEN <<48 + n>>
                  ELSE decimal(n \div 10) \o <<48 + (n % 10)>>
          IN \E token \in {NoToken, Tok(1)},
                k \in {<<"ok32", 1>>, <<"ok32", 2>>, <<"ok16", 1>>,
                       <<"nonhex", 0>>},
                crypted \in BOOLEAN, urlsErr \in BOOLEAN,
                hd \in {<<FALSE, 200>>, <<FALSE, 404>>, <<TRUE, 0>>},
                total \in {-1, 0, 31, 32, 39, 40, 2080},
                rg \in {<<FALSE, 206>>, <<FALSE, 200>>, <<FALSE, 416>>},
                size \in {BlockSize, HeaderSize, HeaderSize + 1},
                numPadding \in {0, 7, 15, 200} :
               LET head == [err |-> hd[1], status |-> hd[2],
                            cl |-> IF total < 0 THEN <<>> ELSE decimal(total)]
                   range == [err |-> rg[1], status |-> rg[2],
                             body |-> SubSeq(header(numPadding) \o <<0>>,
                                             1, size)]
               IN Apply("GetPlainSize",
                        [bearer |-> token, key |-> k, from |-> from,
                         crypted |-> crypted, urlsErr |-> urlsErr,
                         head |-> head, total |-> total,
                         range |-> range, numPadding |-> numPadding],
                        GetPlainSize(token, k, crypted, urlsErr, head, range))
    \/ /\ stream[1].fn \in {"-", "SetCryptoPassword"}
       /\ LET c == IF stream[1].fn = "-"
                   THEN [cryptoPassword |-> "", CryptoSalt |-> "",
                         CryptoHexKey |-> "", poolKey |-> "", fetches |-> 0]
                   ELSE stream[1].out
              n == IF stream[1].fn = "-" THEN 0 ELSE stream[1].arg.n
          IN /\ n < MaxSets
             /\ \E pw \in {"", "pw1", "pw2"},
                   fetch \in {[err |-> TRUE, salt |-> ""],
                              [err |-> FALSE, salt |-> "s1"],
                              [err |-> FALSE, salt |-> "s2"]} :
                  Apply("SetCryptoPassword",
                        [c |-> c, pw |-> pw, fetch |-> fetch, n |-> n + 1],
                        SetCryptoPassword(c, pw, fetch))
    \/ /\ stream[1].fn = "-"
       /\ LET RECURSIVE splits(_)
              splits(n) ==
                  IF n = 0 THEN {<<>>}
                  ELSE splits(n - 1) \cup
                         {Append(r, z) : r \in splits(n - 1),
                                         z \in {1, 16, 17, 33, 200}}
          IN \E b \in 0..(2 * ChunkBlocks + 1), numPadding \in {0, 5},
                reads \in splits(MaxReads), eofWithData \in BOOLEAN :
               Apply("DecryptTwofishCBCStream",
                     [len |-> b * BlockSize, numPadding |-> numPadding,
                      reads |-> reads, eofWithData |-> eofWithData],
                     DecryptTwofishCBCStream(b * BlockSize, numPadding,
                                             reads, eofWithData))

FnSpec == FnInit /\ [][FnNext]_vars

\* C22: decrypting, under the same 32-byte key, the ciphertext that
\* EncryptFilename has produced for a name gives back this name.
C22_FilenameRoundTrip ==
    LET a == stream[1].arg
    IN (stream[1].fn = "DecryptFilename" /\ a.how = "same" /\ a.key = a.from)
         => ~stream[1].out.err /\ stream[1].out.name = a.name

\* A name with '+' whose escaped length is one whole block has been
\* encrypted and decrypted again.
C22_Witness ==
    LET a == stream[1].arg
    IN /\ stream[1].fn = "DecryptFilename"
       /\ a.how = "same" /\ a.key = a.from
       /\ \E i \in 1..Len(a.name) : a.name[i] = 43
       /\ Len(a.hex) = 2 * BlockSize
       /\ stream[1].out.name = a.name

\* C23: the ciphertext EncryptFilename produces has 16 * ceil(max(1, L) / 16)
\* bytes, L being the length of the escaped name: never zero bytes, and no
\* further block when L is a multiple of 16.
C23_CiphertextLength ==
    LET L == Len(QueryEscape(stream[1].arg.name))
        M == IF L < 1 THEN 1 ELSE L
    IN (stream[1].fn = "EncryptFilename" /\ ~stream[1].out.err)
         => Len(stream[1].out.hex)
              = 2 * BlockSize * ((M + BlockSize - 1) \div BlockSize)

\* C24: the escaping step of EncryptFilename percent-encodes every byte
\* that is no letter, digit or one of - _ . ~ and so writes a space as %20.
C24_EscapesLikeEncodeURIComponent ==
    LET n == stream[1].arg.name
        e == QueryEscape(n)
    IN stream[1].fn = "EncryptFilename"
         => /\ \A i \in 1..Len(e) :
                 e[i] \in (48..57) \cup (65..90) \cup (97..122)
                            \cup {45, 95, 46, 126, 37}
            /\ (\E j \in 1..Len(n) : n[j] = 32)
                 => \E i \in 1..(Len(e) - 2) :
                      e[i] = 37 /\ e[i + 1] = 50 /\ e[i + 2] = 48

\* C30: in a crypto listing every entry whose filename does not decrypt
\* (a key that is not 32 bytes, a filename that is no hex or not a whole
\* number of blocks) keeps its filename as it came, and every entry
\* encrypted under the listing's key carries its decrypted name.
C30_UndecryptableKept ==
    LET a == stream[1].arg
    IN stream[1].fn = "GetCollection"
         => \A i \in 1..2 :
              /\ (a.key[1] # "ok32" \/ a.data[i].how # "same")
                   => stream[1].out[i] = a.data[i].hex
              /\ (a.key = <<"ok32", 1>> /\ a.data[i].how = "same")
                   => stream[1].out[i] = a.data[i].name

\* A listing whose first entry is damaged and whose second entry decrypts
\* to a name that differs from its ciphertext.
C30_Witness ==
    LET a == stream[1].arg
    IN /\ stream[1].fn = "GetCollection"
       /\ a.key = <<"ok32", 1>>
       /\ a.data[1].how = "short" /\ a.data[1].hex # <<>>
       /\ a.data[2].how = "same" /\ a.data[2].name = <<97, 32>>
       /\ stream[1].out = <<a.data[1].hex, <<97, 32>>>>

\* C25: when the challenge decodes, the difficulty is within 1..256 and
\* some counter value has a digest with that many leading zero bits,
\* SolvePOWChallenge returns the 12 random bytes followed by the smallest
\* such counter in 4 bytes, big end first, and the hex of its digest.
C25_SmallestCounter ==
    LET a == stream[1].arg
        o == stream[1].out
        RECURSIVE val(_)
        val(d) == IF d = <<>> THEN 0
                  ELSE d[Len(d)] + 256 * val(SubSeq(d, 1, Len(d) - 1))
        lz(d) == CHOOSE n \in 0..(8 * Len(d)) :
                   /\ val(d) < 2 ^ (8 * Len(d) - n)
                   /\ n < 8 * Len(d) => val(d) >= 2 ^ (8 * Len(d) - n - 1)
        sols == {c \in DOMAIN a.sha : lz(a.sha[c]) >= a.bits}
        least == CHOOSE c \in sols : \A d \in sols : c <= d
        sx(c) == IF c \in 65..90 THEN c - 65
                 ELSE IF c \in 97..122 THEN c - 71
                 ELSE IF c \in 48..57 THEN c + 4
                 ELSE IF c = 45 THEN 62 ELSE 63
        RECURSIVE unb64(_)
        unb64(s) ==
            IF Len(s) < 2 THEN <<>>
            ELSE <<sx(s[1]) * 4 + sx(s[2]) \div 16>> \o
                 (IF Len(s) = 2 THEN <<>>
                  ELSE <<(sx(s[2]) % 16) * 16 + sx(s[3]) \div 4>> \o
                       (IF Len(s) = 3 THEN <<>>
                        ELSE <<(sx(s[3]) % 4) * 64 + sx(s[4])>>
                               \o unb64(SubSeq(s, 5, Len(s)))))
        unhex(h) == [i \in 1..(Len(h) \div 2) |->
                        16 * Unhex(h[2 * i - 1]) + Unhex(h[2 * i])]
    IN ( /\ stream[1].fn = "SolvePOWChallenge"
         /\ a.ok /\ a.bits \in 1..256 /\ a.R # <<>> /\ sols # {} )
         => /\ o.err = "nil"
            /\ unb64(o.nonce)
                 = a.R \o <<(least \div 16777216) % 256,
                            (least \div 65536) % 256,
                            (least \div 256) % 256, least % 256>>
            /\ unhex(o.hash) = a.sha[least]

\* A challenge of 9 bits solved by a counter other than 0.
C25_Witness ==
    /\ stream[1].fn = "SolvePOWChallenge"
    /\ stream[1].arg.bits = 9
    /\ stream[1].out.err = "nil"
    /\ stream[1].out.hashed = 3

\* C26: SolvePOWChallenge ends with a solution or an error: a difficulty
\* outside 1..256 and a challenge that does not decode are refused before
\* anything is hashed, a returned nonce has a digest with at least the
\* asked number of leading zero bits, and when no counter value has one
\* every value is hashed once and the counter overflow is reported.
C26_SolutionOrError ==
    LET a == stream[1].arg
        o == stream[1].out
        RECURSIVE val(_)
        val(d) == IF d = <<>> THEN 0
                  ELSE d[Len(d)] + 256 * val(SubSeq(d, 1, Len(d) - 1))
        enough(d) == a.bits <= 8 * Len(d) /\ val(d) < 2 ^ (8 * Len(d) - a.bits)
        unhex(h) == [i \in 1..(Len(h) \div 2) |->
                        16 * Unhex(h[2 * i - 1]) + Unhex(h[2 * i])]
    IN stream[1].fn = "SolvePOWChallenge"
         => /\ (a.bits < 1 \/ a.bits > 256 \/ ~a.ok)
                 => o.err # "nil" /\ o.hashed = 0
            /\ o.err = "nil"
                 => /\ enough(unhex(o.hash))
                    /\ unhex(o.hash) = a.sha[o.hashed - 1]
            /\ ( /\ a.ok /\ a.bits \in 1..256 /\ a.R # <<>>
                 /\ \A c \in DOMAIN a.sha : ~enough(a.sha[c]) )
                 => o.err = "counter overflow" /\ o.hashed = 2 ^ CounterBits

\* No counter value meets the difficulty: the search ends with the
\* counter overflow after hashing every value.
C26_Witness ==
    /\ stream[1].fn = "SolvePOWChallenge"
    /\ stream[1].arg.bits = 10
    /\ stream[1].out.err = "counter overflow"
    /\ stream[1].out.hashed = 2 ^ CounterBits

\* C27: the payload of ComputeProofOfWork has challenge "proof-of-work",
\* difficulty 4, expires = 1000 * serverTimeSec + 60000, the smallest nonce
\* whose hex digest starts with 0000, and that digest as hash.
C27_LegacyPayload ==
    LET a == stream[1].arg
        p == stream[1].out.payload
        good == {n \in DOMAIN a.sha : a.sha[n][1] = 0 /\ a.sha[n][2] = 0}
        unhex(h) == [i \in 1..(Len(h) \div 2) |->
                        16 * Unhex(h[2 * i - 1]) + Unhex(h[2 * i])]
    IN (stream[1].fn = "ComputeProofOfWork" /\ ~stream[1].out.err)
         => /\ p.challenge = "proof-of-work"
            /\ p.difficulty = 4
            /\ p.expires = 1000 * a.serverTimeSec + 60000
            /\ p.nonce \in good /\ \A n \in good : p.nonce <= n
            /\ unhex(p.hash) = a.sha[p.nonce]
            /\ SubSeq(p.hash, 1, 4) = <<48, 48, 48, 48>>

\* The proof of work for server time 1 700 000 found at a nonce above 0.
C27_Witness ==
    /\ stream[1].fn = "ComputeProofOfWork"
    /\ ~stream[1].out.err
    /\ stream[1].arg.serverTimeSec = 1700000
    /\ stream[1].out.payload.nonce = 2
    /\ stream[1].out.payload.expires = 1700060000

\* C28: for GET, POST and the streaming POST and every apiBase, a target
\* that starts with "/" or has no scheme is requested at apiBase followed
\* by the target, and a target with a scheme as it is.
C28_ResolvesURL ==
    LET a == stream[1].arg
        absolute == a.u # <<>> /\ Head(a.u) = "https://"
    IN stream[1].fn = "RequestURL"
         => stream[1].out = IF absolute THEN a.u ELSE a.apiBase \o a.u

\* C29: with a bearer the Authorization header of a request is "Bearer "
\* and the bearer, whatever the headers string holds; without a bearer it
\* is the last Authorization value parsed from the headers string, and
\* there is none when the string has none.
C29_AuthorizationHeader ==
    LET a == stream[1].arg
        hdr == stream[1].out
        parsed == parseEnvHeaders(a.headers)
        auths == {i \in 1..Len(parsed) : parsed[i][1] = "Authorization"}
        last == CHOOSE i \in auths : \A j \in auths : j <= i
    IN stream[1].fn = "addHeaders"
         => IF a.bearer # NoToken
            THEN /\ "Authorization" \in DOMAIN hdr
                 /\ hdr["Authorization"] = <<"Bearer", a.bearer>>
            ELSE IF auths = {} THEN "Authorization" \notin DOMAIN hdr
            ELSE /\ "Authorization" \in DOMAIN hdr
                 /\ hdr["Authorization"] = parsed[last][2]

\* A sender with a bearer and a headers string that carries its own
\* Authorization value has built a request header.
C29_Witness ==
    LET a == stream[1].arg
    IN /\ stream[1].fn = "addHeaders"
       /\ a.bearer = Tok(1)
       /\ \E i \in 1..Len(a.headers) :
            a.headers[i].name = "authorization" /\ a.headers[i].text = "Basic x"
       /\ stream[1].out["Authorization"] = <<"Bearer", Tok(1)>>

\* C38: countLeadingZeroBits returns the number of zero bits before the
\* first 1 bit, the bytes read from their most significant bit, and 8 times
\* the length when every byte is zero.
C38_LeadingZeroBits ==
    LET data == stream[1].arg
        bit(i) == (data[(i \div 8) + 1] \div (2 ^ (7 - (i % 8)))) % 2
        ones == {i \in 0..(8 * Len(data) - 1) : bit(i) = 1}
    IN stream[1].fn = "countLeadingZeroBits"
         => stream[1].out
              = IF ones = {} THEN 8 * Len(data)
                ELSE CHOOSE i \in ones : \A j \in ones : i <= j

\* Two zero bytes and then a byte whose first 1 bit is its third.
C38_Witness ==
    /\ stream[1].fn = "countLeadingZeroBits"
    /\ stream[1].arg = <<0, 0, 32>>
    /\ stream[1].out = 18

\* C31: for a crypto item GetPlainSize returns the Content-Length of the
\* HEAD answer less the 32 header bytes and less byte 16 of the decrypted
\* header, and an error when that is negative; for any other item it
\* returns the Content-Length.
C31_PlainSize ==
    LET a == stream[1].arg
        answered == /\ a.bearer # NoToken /\ ~a.urlsErr
                    /\ ~a.head.err /\ a.head.status = 200 /\ a.total >= 0
        header == /\ ~a.range.err /\ a.range.status \in {200, 206}
                  /\ Len(a.range.body) >= HeaderSize /\ a.key = a.from
        size == a.total - 32 - a.numPadding
    IN stream[1].fn = "GetPlainSize"
         => /\ (answered /\ ~a.crypted)
                 => stream[1].out = [err |-> "nil", n |-> a.total]
            /\ (answered /\ a.crypted /\ header)
                 => IF size < 0 THEN stream[1].out.err # "nil"
                    ELSE stream[1].out = [err |-> "nil", n |-> size]
            /\ stream[1].out.n >= 0

\* The crypto file of 2080 bytes whose header says 7 bytes of padding.
C31_Witness ==
    /\ stream[1].fn = "GetPlainSize"
    /\ stream[1].arg.crypted
    /\ stream[1].arg.total = 2080
    /\ stream[1].arg.numPadding = 7
    /\ stream[1].out = [err |-> "nil", n |-> 2041]

\* C39: ListFolderTrash on a logged-in client whose sender holds a bearer
\* does not fail on the collection type before a request is sent: its
\* /collection request of type trash goes out.
C39_TrashIsListed ==
    \A t \in Callers :
        (fr[t].op = "ListFolderTrash" /\ pc[t] = "rel" /\ user # "nil"
         /\ bearer[held[t]] # NoToken)
        => fr[t].why # "invalid collection type"

\* C37: a SetCryptoPassword whose salt fetch fails leaves CryptoHexKey and
\* the pool's crypto key as they were, and a SetCryptoPassword on a client
\* that has its salt fetches nothing.
C37_NoKeyWithoutSalt ==
    LET a == stream[1].arg
    IN stream[1].fn = "SetCryptoPassword"
         => /\ (a.c.CryptoSalt = "" /\ a.fetch.err)
                 => /\ stream[1].out.CryptoHexKey = a.c.CryptoHexKey
                    /\ stream[1].out.poolKey = a.c.poolKey
            /\ a.c.CryptoSalt # ""
                 => /\ stream[1].out.fetches = a.c.fetches
                    /\ stream[1].out.CryptoSalt = a.c.CryptoSalt

\* C32: within one call of httpGET, httpPOST or httpPOSTReader reloginFunc
\* is called at most once: the re-logins that have returned and the one in
\* progress are never more than one.
C32_OneReloginPerCall ==
    \A t \in Threads :
        LET f == rq[t][1]
        IN Len(f.rls) + (IF f.ph \in {"relogin1", "relogin2"} THEN 1 ELSE 0)
             <= 1

\* C35: api.LoginWithUsernameAndPassword never returns (nil, nil): a login
\* that returns no user returns an error; so the facade records no login
\* without a user and no re-login that left the pool's bearer empty.
C35_NoUserMeansError ==
    /\ \A t \in Threads, L \in Levels :
         (lg[t][L].ph = "back" /\ lg[t][L].u = "nil") => lg[t][L].err
    /\ \A t \in Callers :
         (fr[t].op = "Login" /\ pc[t] = "ret" /\ fr[t].ret = "ok")
         => user # "nil"
    /\ \A t \in Threads : rl[t].ph = "ok" => poolBearer # NoToken

\* C33: once a re-login has installed a token in the pool, no Release puts
\* an older token in its place: the pool's bearer never changes from a
\* token to one issued before it.
C33_NoOlderTokenBack ==
    [][(poolBearer # NoToken /\ poolBearer' # NoToken)
         => poolBearer'[1] >= poolBearer[1]]_vars

C34_WriteReturnsWithError ==
    (stream[1].kind = "upload" /\ stream[1].req = "ended"
     /\ stream[1].w = "pending")
      ~> (/\ stream[1].w = "idle"
          /\ stream[1].res # <<>>
          /\ stream[1].res[Len(stream[1].res)] # "nil")

====
